---- MODULE Spec2Model ----
(***************************************************************************)
(* Verification model of the graphics engine: the Matrix primitives, the   *)
(* coordinate-system Stack, the Image rasterizer and the Drawer that the   *)
(* Parser replays a command list through.                                  *)
(*                                                                         *)
(* Numbers.  A float64 is modelled in fixed point: the integer n stands    *)
(* for the real n / Unit.  Sums and differences are exact; a product or a  *)
(* quotient is rounded to the nearest multiple of 1 / Unit.                *)
(***************************************************************************)
EXTENDS Integers, Sequences, FiniteSets, TLC

\* ---------------------------------------------------------------- bounds
CanvasH == 3
CanvasW == 3
MaxDepth == 2
MaxCmds == 4
MaxFrames == 2
MaxCalls == 3
MaxStmts == 4
Workers == 2
PoolFrames == 3

\* ------------------------------------------------------------ fixed point
Unit == 1000

Fx(n) == n * Unit

Half == Unit \div 2

FRound(p) == (2 * p + Unit) \div (2 * Unit)

FMul(a, b) == FRound(a * b)

\* a / b.  A quotient by zero (an IEEE infinity or NaN) is produced only by
\* the depth slope of a single-point line, which is never read: it is 0 here.
FDiv(a, b) == IF b = 0 THEN 0 ELSE (2 * a * Unit + b) \div (2 * b)

\* int(x): Go's float64 -> int conversion truncates toward zero
Trunc(x) == IF x >= 0 THEN x \div Unit ELSE -((-x) \div Unit)

\* math.Inf(-1): below every depth the model produces
NegInf == -1000000000

\* ---------------------------------------------------------------- gmath.go
CrossProduct(a, b) ==
    << FMul(a[2], b[3]) - FMul(a[3], b[2]),
       FMul(a[3], b[1]) - FMul(a[1], b[3]),
       FMul(a[1], b[2]) - FMul(a[2], b[1]) >>

\* the surface normal of the triangle p0 p1 p2
Normal(p0, p1, p2) ==
    << FMul(p1[2] - p0[2], p2[3] - p0[3]) - FMul(p1[3] - p0[3], p2[2] - p0[2]),
       FMul(p1[3] - p0[3], p2[1] - p0[1]) - FMul(p1[1] - p0[1], p2[3] - p0[3]),
       FMul(p1[1] - p0[1], p2[2] - p0[2]) - FMul(p1[2] - p0[2], p2[1] - p0[1]) >>

DotProduct(a, b) == FMul(a[1], b[1]) + FMul(a[2], b[2]) + FMul(a[3], b[3])

RECURSIVE SqrtBetween(_, _, _)
\* the largest r in lo..hi with r * r <= n
SqrtBetween(n, lo, hi) ==
    IF lo >= hi THEN lo
    ELSE LET mid == (lo + hi + 1) \div 2
         IN  IF mid * mid <= n THEN SqrtBetween(n, mid, hi)
             ELSE SqrtBetween(n, lo, mid - 1)

\* math.Sqrt of the sum of squares; the squares carry Unit twice, so the
\* root carries it once
Magnitude(a) == SqrtBetween(a[1] * a[1] + a[2] * a[2] + a[3] * a[3], 0, 40000)

Normalize(a) ==
    LET magnitude == Magnitude(a)
    IN  [i \in 1..3 |-> FDiv(a[i], magnitude)]

Subtract(a, b) == [i \in 1..3 |-> a[i] - b[i]]

ScaleVector(a, factor) == [i \in 1..3 |-> FMul(a[i], factor)]

\* ------------------------------------------------------------- lighting.go
DefaultViewVector == <<0, 0, -Unit>>

flatAmbientLight(I_a, K_a) == [i \in 1..3 |-> FMul(I_a[i], K_a[i])]

flatDiffuseLight(p0, p1, p2, I_i, K_d, light) ==
    LET normal == Normalize(Normal(p0, p1, p2))
        diffuseVector == DotProduct(Normalize(light), normal)
        diffuse == [i \in 1..3 |-> FMul(FMul(I_i[i], K_d[i]), diffuseVector)]
    IN  [i \in 1..3 |-> IF diffuse[i] < 0 THEN 0 ELSE diffuse[i]]

flatSpecularLight(p0, p1, p2, I_i, K_s, light, view) ==
    LET normal == Normalize(Normal(p0, p1, p2))
        l == Normalize(light)
        dot == DotProduct(l, normal)
        reflect == Normalize(Subtract(ScaleVector(normal, dot * 2), l))
        specularVector == DotProduct(reflect, view)
        specular == [i \in 1..3 |-> FMul(FMul(I_i[i], K_s[i]), specularVector)]
    IN  [i \in 1..3 |-> IF specular[i] < 0 THEN 0 ELSE specular[i]]

RECURSIVE shadeLights(_, _, _, _, _, _, _, _, _, _)
\* the loop of FlatShading over lights[k..]: I plus each light's diffuse and
\* specular terms
shadeLights(I, p0, p1, p2, I_i, K_d, K_s, view, lights, k) ==
    IF k > Len(lights) THEN I
    ELSE LET diffuse == flatDiffuseLight(p0, p1, p2, I_i, K_d, lights[k])
             specular == flatSpecularLight(p0, p1, p2, I_i, K_s, lights[k], view)
         IN  CHOOSE out \in {shadeLights(r, p0, p1, p2, I_i, K_d, K_s, view, lights, k + 1) :
                             r \in {[i \in 1..3 |-> I[i] + diffuse[i] + specular[i]]}} : TRUE

FlatShading(p0, p1, p2, I_a, K_a, I_i, K_d, K_s, view, lights) ==
    shadeLights(flatAmbientLight(I_a, K_a), p0, p1, p2, I_i, K_d, K_s, view, lights, 1)

\* --------------------------------------------------------------- matrix.go
\* A Matrix value: rows, cols and data, a sequence of rows.
NewMatrix(rows, cols) ==
    [rows |-> rows, cols |-> cols,
     data |-> [i \in 1..rows |-> [j \in 1..cols |-> 0]]]

NewMatrixFromData(data) ==
    [rows |-> Len(data), cols |-> Len(data[1]), data |-> data]

IdentityMatrix(size) ==
    [rows |-> size, cols |-> size,
     data |-> [i \in 1..size |-> [j \in 1..size |-> IF i = j THEN Unit ELSE 0]]]

Get(m, r, c) == m.data[r + 1][c + 1]

GetColumn(m, c) == [i \in 1..m.rows |-> Get(m, i - 1, c)]

RECURSIVE DotRC(_, _, _, _, _)
\* the inner loop of Multiply: sum over k of m[i][k] * m2[k][j]
DotRC(m, m2, i, j, k) ==
    IF k >= m.cols THEN 0
    ELSE FMul(Get(m, i, k), Get(m2, k, j)) + DotRC(m, m2, i, j, k + 1)

\* Multiply with the column counts compared instead of lhs.cols with rhs.rows
Multiply_colsCompared(m, m2) ==
    IF m.cols # m2.cols
    THEN [err |-> "DimensionMismatch", product |-> NewMatrix(0, 0)]
    ELSE [err |-> "",
          product |-> [rows |-> m.rows, cols |-> m2.cols,
                       data |-> [i \in 1..m.rows |->
                                   [j \in 1..m2.cols |->
                                      DotRC(m, m2, i - 1, j - 1, 0)]]]]

\* Multiply returns (product, nil) or (nil, error)
Multiply(m, m2) ==
    IF m.cols # m2.rows
    THEN [err |-> "DimensionMismatch", product |-> NewMatrix(0, 0)]
    ELSE [err |-> "",
          product |-> [rows |-> m.rows, cols |-> m2.cols,
                       data |-> [i \in 1..m.rows |->
                                   [j \in 1..m2.cols |->
                                      DotRC(m, m2, i - 1, j - 1, 0)]]]]

\* AddColumn appends one value to every row; a column of the wrong height
\* is rejected and the matrix is left as it was.
AddColumn(m, column) ==
    IF Len(column) # m.rows THEN m
    ELSE [rows |-> m.rows, cols |-> m.cols + 1,
          data |-> [i \in 1..m.rows |-> Append(m.data[i], column[i])]]

MakeTranslation(x, y, z) ==
    NewMatrixFromData(<< <<Unit, 0, 0, x>>,
                         <<0, Unit, 0, y>>,
                         <<0, 0, Unit, z>>,
                         <<0, 0, 0, Unit>> >>)

MakeDilation(sx, sy, sz) ==
    NewMatrixFromData(<< <<sx, 0, 0, 0>>,
                         <<0, sy, 0, 0>>,
                         <<0, 0, sz, 0>>,
                         <<0, 0, 0, Unit>> >>)

AddPoint(m, x, y, z) == AddColumn(m, <<x, y, z, Unit>>)

AddEdge(m, x0, y0, z0, x1, y1, z1) ==
    AddPoint(AddPoint(m, x0, y0, z0), x1, y1, z1)

AddTriangle(m, x0, y0, z0, x1, y1, z1, x2, y2, z2) ==
    AddPoint(AddPoint(AddPoint(m, x0, y0, z0), x1, y1, z1), x2, y2, z2)

\* An angle is kept exactly as [q, e], standing for the real number
\* q * (pi/2) * (180/pi)^e: 90 degrees is [q |-> 1, e |-> 1], a quarter turn
\* in radians is [q |-> 1, e |-> 0].
Angle(q, e) == [q |-> q, e |-> e]

\* degrees * math.Pi / 180.0
degreesToRadians(degrees) == [q |-> degrees.q, e |-> degrees.e - 1]

Abs(n) == IF n < 0 THEN -n ELSE n

\* cos and sin of q * (pi/2) * (pi/180) radians (q * 0.0274156), q = 0..3
CosSmall == <<1000, 1000, 998, 997>>

SinSmall == <<0, 27, 55, 82>>

\* math.Cos on the radians value theta
Cos(theta) ==
    CASE theta.e = 0  -> <<Unit, 0, -Unit, 0>>[(theta.q % 4) + 1]
      [] theta.e = -1 -> CosSmall[Abs(theta.q) + 1]

\* math.Sin on the radians value theta
Sin(theta) ==
    CASE theta.e = 0  -> <<0, Unit, 0, -Unit>>[(theta.q % 4) + 1]
      [] theta.e = -1 -> IF theta.q < 0 THEN -SinSmall[Abs(theta.q) + 1]
                         ELSE SinSmall[theta.q + 1]

MakeRotX(theta0) ==
    LET theta == degreesToRadians(theta0)
    IN  NewMatrixFromData(<< <<Unit, 0, 0, 0>>,
                             <<0, Cos(theta), Sin(theta), 0>>,
                             <<0, -Sin(theta), Cos(theta), 0>>,
                             <<0, 0, 0, Unit>> >>)

MakeRotY(theta0) ==
    LET theta == degreesToRadians(theta0)
    IN  NewMatrixFromData(<< <<Cos(theta), 0, -Sin(theta), 0>>,
                             <<0, Unit, 0, 0>>,
                             <<Sin(theta), 0, Cos(theta), 0>>,
                             <<0, 0, 0, Unit>> >>)

MakeRotZ(theta0) ==
    LET theta == degreesToRadians(theta0)
    IN  NewMatrixFromData(<< <<Cos(theta), Sin(theta), 0, 0>>,
                             <<-Sin(theta), Cos(theta), 0, 0>>,
                             <<0, 0, Unit, 0>>,
                             <<0, 0, 0, Unit>> >>)

\* AddBox: twelve triangles, two per face
AddBox(m, x, y, z, width, height, depth) ==
    LET x1 == x + width
        y1 == y - height
        z1 == z - depth
        f1 == AddTriangle(m, x, y1, z, x, y, z, x1, y, z)
        f2 == AddTriangle(f1, x, y1, z, x1, y, z, x1, y1, z)
        b1 == AddTriangle(f2, x1, y1, z1, x1, y, z1, x, y, z1)
        b2 == AddTriangle(b1, x1, y1, z1, x, y, z1, x, y1, z1)
        t1 == AddTriangle(b2, x, y1, z1, x, y1, z, x1, y1, z)
        t2 == AddTriangle(t1, x, y1, z1, x1, y1, z, x1, y1, z1)
        o1 == AddTriangle(t2, x1, y, z1, x1, y, z, x, y, z)
        o2 == AddTriangle(o1, x1, y, z1, x, y, z, x, y, z1)
        l1 == AddTriangle(o2, x, y1, z1, x, y, z1, x, y, z)
        l2 == AddTriangle(l1, x, y1, z1, x, y, z, x, y1, z)
        r1 == AddTriangle(l2, x1, y1, z, x1, y, z, x1, y, z1)
        r2 == AddTriangle(r1, x1, y1, z, x1, y, z1, x1, y1, z1)
    IN  r2

\* ---------------------------------------------------------------- image.go
Black == <<0, 0, 0>>

White == <<255, 255, 255>>

\* NewImage: every pixel the zero Color, every depth minus infinity
NewImage(height, width) ==
    [frame   |-> [y \in 0..(height - 1) |-> [x \in 0..(width - 1) |-> Black]],
     zBuffer |-> [y \in 0..(height - 1) |-> [x \in 0..(width - 1) |-> NegInf]],
     height  |-> height,
     width   |-> width]

\* set with the depth test left out: the last write wins
set_noDepthTest(image, x, y, z, c) ==
    IF (x < 0 \/ x >= image.width) \/ (y < 0 \/ y >= image.height)
    THEN image
    ELSE [image EXCEPT !.frame[y][x] = c, !.zBuffer[y][x] = z]

Clamp(v, lo, hi) == IF v < lo THEN lo ELSE IF v > hi THEN hi ELSE v

\* set that moves an outside point to the nearest edge pixel
set_clamped(image, x, y, z, c) ==
    LET cx == Clamp(x, 0, image.width - 1)
        cy == Clamp(y, 0, image.height - 1)
    IN  IF z > image.zBuffer[cy][cx]
        THEN [image EXCEPT !.frame[cy][cx] = c, !.zBuffer[cy][cx] = z]
        ELSE image

\* An image with a ghost field that lists the calls of set made on it, in
\* order, each with the x, y and z it was given.
Traced(image) ==
    [frame |-> image.frame, zBuffer |-> image.zBuffer, height |-> image.height,
     width |-> image.width, calls |-> <<>>]

\* set: clip to the canvas, then the depth test
set(image, x, y, z, c) ==
    LET called == IF "calls" \in DOMAIN image
                  THEN [image EXCEPT !.calls = Append(@, <<x, y, z>>)]
                  ELSE image
    IN  IF (x < 0 \/ x >= image.width) \/ (y < 0 \/ y >= image.height)
        THEN called
        ELSE IF z > image.zBuffer[y][x]
             THEN [called EXCEPT !.frame[y][x] = c, !.zBuffer[y][x] = z]
             ELSE called

\* Fill writes the colour grid only
Fill(image, c) ==
    [image EXCEPT !.frame = [y \in 0..(image.height - 1) |->
                               [x \in 0..(image.width - 1) |-> c]]]

RECURSIVE loopOctant1(_, _, _, _, _, _, _, _, _, _)
\* for x1 <= x2 { set; if d > 0 { y1++; d += B }; x1++; d += A; z1 += dz }
loopOctant1(image, x1, y1, z1, x2, A, B, d, dz, c) ==
    IF x1 <= x2
    THEN loopOctant1(set(image, Trunc(x1), Trunc(y1), z1, c),
                     x1 + Unit,
                     IF d > 0 THEN y1 + Unit ELSE y1,
                     z1 + dz, x2, A, B,
                     (IF d > 0 THEN d + B ELSE d) + A,
                     dz, c)
    ELSE image

drawOctant1(image, x1, y1, z1, x2, y2, z2, A, B, c) ==
    loopOctant1(image, x1, y1, z1, x2, A, B,
                A + B \div 2, FDiv(z2 - z1, x2 - x1), c)

RECURSIVE loopOctant2(_, _, _, _, _, _, _, _, _, _)
\* for y1 <= y2 { set; if d < 0 { x1++; d += A }; y1++; d += B; z1 += dz }
loopOctant2(image, x1, y1, z1, y2, A, B, d, dz, c) ==
    IF y1 <= y2
    THEN loopOctant2(set(image, Trunc(x1), Trunc(y1), z1, c),
                     IF d < 0 THEN x1 + Unit ELSE x1,
                     y1 + Unit,
                     z1 + dz, y2, A, B,
                     (IF d < 0 THEN d + A ELSE d) + B,
                     dz, c)
    ELSE image

drawOctant2(image, x1, y1, z1, x2, y2, z2, A, B, c) ==
    loopOctant2(image, x1, y1, z1, y2, A, B,
                A \div 2 + B, FDiv(z2 - z1, y2 - y1), c)

RECURSIVE loopOctant7(_, _, _, _, _, _, _, _, _, _)
\* for y1 >= y2 { set; if d > 0 { x1++; d += A }; y1--; d -= B; z1 += dz }
loopOctant7(image, x1, y1, z1, y2, A, B, d, dz, c) ==
    IF y1 >= y2
    THEN loopOctant7(set(image, Trunc(x1), Trunc(y1), z1, c),
                     IF d > 0 THEN x1 + Unit ELSE x1,
                     y1 - Unit,
                     z1 + dz, y2, A, B,
                     (IF d > 0 THEN d + A ELSE d) - B,
                     dz, c)
    ELSE image

drawOctant7(image, x1, y1, z1, x2, y2, z2, A, B, c) ==
    loopOctant7(image, x1, y1, z1, y2, A, B,
                A \div 2 + B, FDiv(z2 - z1, y2 - y1), c)

RECURSIVE loopOctant8(_, _, _, _, _, _, _, _, _, _)
\* for x1 <= x2 { set; if d < 0 { y1--; d -= B }; x1++; d += A; z1 += dz }
loopOctant8(image, x1, y1, z1, x2, A, B, d, dz, c) ==
    IF x1 <= x2
    THEN loopOctant8(set(image, Trunc(x1), Trunc(y1), z1, c),
                     x1 + Unit,
                     IF d < 0 THEN y1 - Unit ELSE y1,
                     z1 + dz, x2, A, B,
                     (IF d < 0 THEN d - B ELSE d) + A,
                     dz, c)
    ELSE image

drawOctant8(image, x1, y1, z1, x2, y2, z2, A, B, c) ==
    loopOctant8(image, x1, y1, z1, x2, A, B,
                A - B \div 2, FDiv(z2 - z1, x2 - x1), c)

\* The slope m = A / -B is compared without dividing.  -B = 2 * (x2 - x1) is
\* never negative once the endpoints are ordered; with -B = 0 the quotient
\* is +Inf (A > 0), -Inf (A < 0) or NaN (A = 0), and NaN fails every test.
SlopeGeq0(A, B) == (-B > 0 /\ A >= 0) \/ (-B = 0 /\ A > 0)

SlopeLeq1(A, B) == -B > 0 /\ A <= -B

SlopeLtMinus1(A, B) == (-B > 0 /\ A < B) \/ (-B = 0 /\ A < 0)

\* DrawLine with the endpoints already ordered by x
DrawLineOrdered(image, x1, y1, z1, x2, y2, z2, c) ==
    LET A == 2 * (y2 - y1)
        B == 2 * (-(x2 - x1))
    IN  IF SlopeGeq0(A, B)
        THEN IF SlopeLeq1(A, B)
             THEN drawOctant1(image, x1, y1, z1, x2, y2, z2, A, B, c)
             ELSE drawOctant2(image, x1, y1, z1, x2, y2, z2, A, B, c)
        ELSE IF SlopeLtMinus1(A, B)
             THEN drawOctant7(image, x1, y1, z1, x2, y2, z2, A, B, c)
             ELSE drawOctant8(image, x1, y1, z1, x2, y2, z2, A, B, c)

DrawLine(image, x1, y1, z1, x2, y2, z2, c) ==
    IF x1 > x2
    THEN DrawLineOrdered(image, x2, y2, z2, x1, y1, z1, c)
    ELSE DrawLineOrdered(image, x1, y1, z1, x2, y2, z2, c)

\* isVisible that also passes a triangle seen edge-on
isVisible_nonNegative(p0, p1, p2) ==
    LET a == <<p1[1] - p0[1], p1[2] - p0[2], p1[3] - p0[3]>>
        b == <<p2[1] - p0[1], p2[2] - p0[2], p2[3] - p0[3]>>
        normal == CrossProduct(a, b)
    IN  normal[3] >= 0

isVisible(p0, p1, p2) ==
    LET a == <<p1[1] - p0[1], p1[2] - p0[2], p1[3] - p0[3]>>
        b == <<p2[1] - p0[1], p2[2] - p0[2], p2[3] - p0[3]>>
        normal == CrossProduct(a, b)
    IN  normal[3] > 0

RECURSIVE loopDrawLines(_, _, _, _)
\* for i := 0; i < em.cols-1; i += 2
loopDrawLines(image, em, i, c) ==
    IF i < em.cols - 1
    THEN LET p0 == GetColumn(em, i)
             p1 == GetColumn(em, i + 1)
             drawn == DrawLine(image, p0[1], p0[2], p0[3],
                               p1[1], p1[2], p1[3], c)
         IN  IF drawn.height = image.height
             THEN loopDrawLines(drawn, em, i + 2, c)
             ELSE image
    ELSE image

\* DrawLines returns the image and the error
DrawLines(image, em, c) ==
    IF em.cols < 2
    THEN [image |-> image, err |-> "InsufficientGeometry"]
    ELSE [image |-> loopDrawLines(image, em, 0, c), err |-> ""]

RECURSIVE loopDrawPolygons(_, _, _, _)
\* for i := 0; i < em.cols-2; i += 3
loopDrawPolygons(image, em, i, c) ==
    IF i < em.cols - 2
    THEN LET p0 == GetColumn(em, i)
             p1 == GetColumn(em, i + 1)
             p2 == GetColumn(em, i + 2)
             e1 == DrawLine(image, p0[1], p0[2], p0[3], p1[1], p1[2], p1[3], c)
             e2 == DrawLine(e1, p1[1], p1[2], p1[3], p2[1], p2[2], p2[3], c)
             e3 == DrawLine(e2, p2[1], p2[2], p2[3], p0[1], p0[2], p0[3], c)
             drawn == IF isVisible(p0, p1, p2) THEN e3 ELSE image
         IN  IF drawn.height = image.height
             THEN loopDrawPolygons(drawn, em, i + 3, c)
             ELSE image
    ELSE image

\* DrawPolygons with the point count test of DrawLines
DrawPolygons_twoPoints(image, em, c) ==
    IF em.cols < 2
    THEN [image |-> image, err |-> "InsufficientGeometry"]
    ELSE [image |-> loopDrawPolygons(image, em, 0, c), err |-> ""]

DrawPolygons(image, em, c) ==
    IF em.cols < 3
    THEN [image |-> image, err |-> "InsufficientGeometry"]
    ELSE [image |-> loopDrawPolygons(image, em, 0, c), err |-> ""]

\* ---------------------------------------------------------------- stack.go
\* The stack holds *Matrix values.  A Matrix on the stack is the struct
\* [data, rows, cols] whose data field is the address of its rows in heap,
\* so that two structs can share one data (Matrix.Copy).  Nil is the nil
\* pointer.
Nil == [data |-> 0, rows |-> 0, cols |-> 0]

NewStack == <<>>

IsEmpty(s) == Len(s) = 0

\* Pop that returns the top and leaves it on the stack
StackPop_keepsTop(s) ==
    IF Len(s) = 0
    THEN [ret |-> [data |-> 0, rows |-> 0, cols |-> 0], stack |-> s]
    ELSE [ret |-> s[Len(s)], stack |-> s]

\* Pop returns the top and the remaining stack; nil and the same stack when
\* the stack is empty
StackPop(s) ==
    IF IsEmpty(s)
    THEN [ret |-> Nil, stack |-> s]
    ELSE [ret |-> s[Len(s)], stack |-> SubSeq(s, 1, Len(s) - 1)]

StackPush(s, m) == Append(s, m)

Peek(s) == IF IsEmpty(s) THEN Nil ELSE s[Len(s)]

\* ------------------------------------------------------------------- heap
\* the Matrix value a stack entry points to
Load(heap, m) == [rows |-> m.rows, cols |-> m.cols, data |-> heap[m.data]]

\* the lowest address that holds no data
FreeAddr(heap) ==
    CHOOSE a \in 1..(Cardinality(DOMAIN heap) + 1) :
        a \notin DOMAIN heap /\ \A b \in 1..(a - 1) : b \in DOMAIN heap

\* allocate the data of a new Matrix (NewMatrix inside Multiply or
\* IdentityMatrix) and return the struct that points to it
Store(heap, mv) ==
    LET a == FreeAddr(heap)
    IN  [heap |-> heap @@ (a :> mv.data),
         m    |-> [data |-> a, rows |-> mv.rows, cols |-> mv.cols]]

\* Copy: NewMatrixFromData(m.data), a new struct over the same data
Copy(heap, m) ==
    [data |-> m.data, rows |-> Len(heap[m.data]), cols |-> Len(heap[m.data][1])]

\* data no stack entry points to is garbage
Collect(heap, s) ==
    [a \in {s[i].data : i \in 1..Len(s)} |-> heap[a]]

\* ------------------------------------------------------------ constants.go
DrawLineMode == 0

DrawPolygonMode == 1

\* A Drawer is [frame, em, cs] plus the heap its stack entries point into.
\* Every method returns the Drawer after the call, the error it returned
\* and whether it panicked on a nil *Matrix.
NewDrawer(height, width) ==
    [frame |-> NewImage(height, width),
     em    |-> NewMatrix(4, 0),
     cs    |-> NewStack,
     heap  |-> << >>]

Ret(d, err) == [d |-> d, err |-> err, panic |-> FALSE]

Panic(d) == [d |-> d, err |-> "", panic |-> TRUE]

clear(d) == [d EXCEPT !.em = NewMatrix(4, 0)]

draw(d, mode) ==
    CASE mode = DrawLineMode    -> DrawLines(d.frame, d.em, White)
      [] mode = DrawPolygonMode -> DrawPolygons(d.frame, d.em, White)
      [] OTHER                  -> [image |-> d.frame, err |-> "UndefinedDrawMode"]

\* apply without the final d.clear()
apply_noClear(d, mode) ==
    LET top == Peek(d.cs)
    IN  IF top = Nil
        THEN Panic(d)
        ELSE LET r == Multiply(Load(d.heap, top), d.em)
             IN  IF r.err # ""
                 THEN Ret(d, r.err)
                 ELSE LET d1 == [d EXCEPT !.em = r.product]
                          dr == draw(d1, mode)
                      IN  IF dr.err # ""
                          THEN Ret(d1, dr.err)
                          ELSE Ret([d1 EXCEPT !.frame = dr.image], "")

apply(d, mode) ==
    LET top == Peek(d.cs)
    IN  IF top = Nil
        THEN Panic(d)
        ELSE LET r == Multiply(Load(d.heap, top), d.em)
             IN  IF r.err # ""
                 THEN Ret(d, r.err)
                 ELSE LET d1 == [d EXCEPT !.em = r.product]
                          dr == draw(d1, mode)
                      IN  IF dr.err # ""
                          THEN Ret(d1, dr.err)
                          ELSE Ret(clear([d1 EXCEPT !.frame = dr.image]), "")

Reset(d) ==
    [frame |-> NewImage(d.frame.height, d.frame.width),
     em    |-> NewMatrix(4, 0),
     cs    |-> NewStack,
     heap  |-> << >>]

Line(d, x0, y0, z0, x1, y1, z1) ==
    apply([d EXCEPT !.em = AddEdge(d.em, x0, y0, z0, x1, y1, z1)], DrawLineMode)

Box(d, x, y, z, width, height, depth) ==
    apply([d EXCEPT !.em = AddBox(d.em, x, y, z, width, height, depth)],
          DrawPolygonMode)

\* the transform composed on the left: top := t.Multiply(top)
composeTop_left(d, t) ==
    LET popped == StackPop(d.cs)
    IN  IF popped.ret = Nil
        THEN Panic(d)
        ELSE LET r == Multiply(t, Load(d.heap, popped.ret))
             IN  IF r.err # ""
                 THEN Ret([d EXCEPT !.cs = popped.stack,
                                    !.heap = Collect(d.heap, popped.stack)],
                          r.err)
                 ELSE LET st == Store(d.heap, r.product)
                          ns == StackPush(popped.stack, st.m)
                      IN  Ret([d EXCEPT !.cs = ns,
                                        !.heap = Collect(st.heap, ns)], "")

\* composeTop that writes the product into the data of the matrix it popped
composeTop_inPlace(d, t) ==
    LET popped == StackPop(d.cs)
    IN  IF popped.ret = Nil
        THEN Panic(d)
        ELSE LET r == Multiply(Load(d.heap, popped.ret), t)
             IN  IF r.err # ""
                 THEN Ret([d EXCEPT !.cs = popped.stack,
                                    !.heap = Collect(d.heap, popped.stack)],
                          r.err)
                 ELSE Ret([d EXCEPT !.heap[popped.ret.data] = r.product.data], "")

\* top := d.cs.Pop(); top, err := top.Multiply(t); d.cs.Push(top)
composeTop(d, t) ==
    LET popped == StackPop(d.cs)
    IN  IF popped.ret = Nil
        THEN Panic(d)
        ELSE LET r == Multiply(Load(d.heap, popped.ret), t)
             IN  IF r.err # ""
                 THEN Ret([d EXCEPT !.cs = popped.stack,
                                    !.heap = Collect(d.heap, popped.stack)],
                          r.err)
                 ELSE LET st == Store(d.heap, r.product)
                          ns == StackPush(popped.stack, st.m)
                      IN  Ret([d EXCEPT !.cs = ns,
                                        !.heap = Collect(st.heap, ns)], "")

Scale(d, sx, sy, sz) == composeTop(d, MakeDilation(sx, sy, sz))

Move(d, x, y, z) == composeTop(d, MakeTranslation(x, y, z))

\* Rotate that pops the top before it looks at the axis
Rotate_popFirst(d, axis, theta0) ==
    LET theta == degreesToRadians(theta0)
        popped == StackPop(d.cs)
        d1 == [d EXCEPT !.cs = popped.stack,
                        !.heap = Collect(d.heap, popped.stack)]
    IN  CASE axis = "x" -> composeTop(d, MakeRotX(theta))
          [] axis = "y" -> composeTop(d, MakeRotY(theta))
          [] axis = "z" -> composeTop(d, MakeRotZ(theta))
          [] OTHER      -> Ret(d1, "InvalidAxis")

Rotate(d, axis, theta0) ==
    LET theta == degreesToRadians(theta0)
    IN  CASE axis = "x" -> composeTop(d, MakeRotX(theta))
          [] axis = "y" -> composeTop(d, MakeRotY(theta))
          [] axis = "z" -> composeTop(d, MakeRotZ(theta))
          [] OTHER      -> Ret(d, "InvalidAxis")

Pop(d) ==
    LET ns == StackPop(d.cs).stack
    IN  [d EXCEPT !.cs = ns, !.heap = Collect(d.heap, ns)]

\* Push calls IdentityMatrix() without a size; every transform it is
\* multiplied with is 4 x 4, so the identity pushed is IdentityMatrix(4)
Push(d) ==
    IF IsEmpty(d.cs)
    THEN LET st == Store(d.heap, IdentityMatrix(4))
         IN  [d EXCEPT !.cs = StackPush(d.cs, st.m), !.heap = st.heap]
    ELSE [d EXCEPT !.cs = StackPush(d.cs, Copy(d.heap, Peek(d.cs)))]

\* ---------------------------------------------------------- symbol_table.go
NewSymbolTable == [n \in {} |-> 0]

\* s.table[name] = value
SymbolTableSet(table, name, value) ==
    [n \in DOMAIN table \cup {name} |-> IF n = name THEN value ELSE table[n]]

\* value, found := s.table[name]
SymbolTableGet(table, name) ==
    IF name \in DOMAIN table
    THEN [value |-> table[name], found |-> TRUE]
    ELSE [value |-> 0, found |-> FALSE]

\* ---------------------------------------------------------------- parser.go
DefaultBasename == "frame"

FramesDirectory == "frames"

RECURSIVE Itoa(_)
\* strconv.Itoa of a number that is not negative: its decimal digits
Itoa(n) == IF n < 10 THEN <<n>> ELSE Append(Itoa(n \div 10), n % 10)

RECURSIVE ZeroPad(_, _)
\* the verb %0<width>d: zeros on the left up to width, never a digit dropped
ZeroPad(digits, width) ==
    IF Len(digits) >= width THEN digits ELSE ZeroPad(<<0>> \o digits, width)

\* fmt.Sprintf("%s/%s-%%0%dd.png", FramesDirectory, basename, len(Itoa(frames)))
FormatString(basename, frames) ==
    [dir |-> FramesDirectory, basename |-> basename, width |-> Len(Itoa(frames))]

\* fmt.Sprintf(p.formatString, frame)
FramePath(formatString, frame) ==
    [dir      |-> formatString.dir,
     basename |-> formatString.basename,
     digits   |-> ZeroPad(Itoa(frame), formatString.width)]

\* the empty string of a formatString that was never set
NoFormat == [dir |-> "", basename |-> "", width |-> 0]

\* The Parser without its lexer: the fields parse and process read and
\* write.  knobs maps a name to its slice of values, one per frame; symbols
\* is the table of the SymbolTable.
NewParser ==
    [commands     |-> <<>>,
     isAnimated   |-> FALSE,
     frames       |-> 0,
     basename     |-> "",
     formatString |-> NoFormat,
     symbols      |-> NewSymbolTable,
     knobs        |-> [n \in {} |-> <<>>]]

\* A statement of the script after lexing: the directive or command word,
\* the name it carries (a knob, a symbol, a basename or a file name), the
\* axis of a rotate, and its numbers.
Stmt(kind, name, axis, args) ==
    [kind |-> kind, name |-> name, axis |-> axis, args |-> args]

\* what one statement of parse returns: the Parser, the error and whether it
\* panicked
Parsed(p, err) == [p |-> p, err |-> err, panic |-> FALSE]

ParsePanic(p) == [p |-> p, err |-> "", panic |-> TRUE]

\* make([]float64, frames)
MakeKnob(frames) == [f \in 1..frames |-> 0]

RECURSIVE loopVary(_, _, _, _, _)
\* for frame := startFrame; frame <= endFrame; frame++ {
\*     knob[frame] = startValue; startValue += delta }
\* frame f of the slice is knob[f + 1]; a frame beyond the slice panics
loopVary(knob, frame, endFrame, startValue, delta) ==
    IF frame > endFrame
    THEN [knob |-> knob, panic |-> FALSE]
    ELSE IF frame >= Len(knob)
         THEN [knob |-> knob, panic |-> TRUE]
         ELSE CHOOSE out \in
                  {loopVary(written, frame + 1, endFrame, next, delta) :
                      written \in {[knob EXCEPT ![frame + 1] = startValue]},
                      next \in {startValue + delta}} : TRUE


\* the knob a vary statement starts from: the slice in the table, or a new
\* slice of p.frames zeros
KnobOf(p, name) ==
    IF name \in DOMAIN p.knobs THEN p.knobs[name] ELSE MakeKnob(p.frames)

\* p.knobs[name] = knob
WithKnob(p, name, knob) ==
    [p EXCEPT !.knobs = [n \in DOMAIN p.knobs \cup {name} |->
                            IF n = name THEN knob ELSE p.knobs[n]]]

\* case VARY that always starts from a new slice of zeros
parseVary_newSlice(p, name, startFrame, endFrame, startValue, endValue) ==
    IF p.frames = 0
    THEN Parsed(p, "number of frames is not set")
    ELSE IF startFrame < 0 \/ startFrame >= p.frames
    THEN Parsed(p, "invalid start frame")
    ELSE IF endFrame < 0 \/ endFrame >= p.frames \/ endFrame < startFrame
    THEN Parsed(p, "invalid end frame")
    ELSE LET length == endFrame - startFrame
             delta == FDiv(endValue - startValue, Fx(length + 1))
             r == loopVary(MakeKnob(p.frames), startFrame, endFrame, startValue, delta)
         IN  Parsed([WithKnob(p, name, r.knob) EXCEPT !.isAnimated = TRUE], "")

\* case VARY.  The slice of a knob that is already in the table is written
\* in place, so what the loop wrote before a panic stays in the table.
parseVary(p, name, startFrame, endFrame, startValue, endValue) ==
    IF p.frames = 0
    THEN Parsed(p, "number of frames is not set")
    ELSE IF startFrame < 0 \/ startFrame >= p.frames
    THEN Parsed(p, "invalid start frame")
    ELSE IF endFrame < 0 \/ endFrame >= p.frames \/ endFrame < startFrame
    THEN Parsed(p, "invalid end frame")
    ELSE LET length == endFrame - startFrame
             delta == FDiv(endValue - startValue, Fx(length + 1))
             r == loopVary(KnobOf(p, name), startFrame, endFrame, startValue, delta)
         IN  IF r.panic
             THEN ParsePanic(IF name \in DOMAIN p.knobs
                             THEN WithKnob(p, name, r.knob) ELSE p)
             ELSE Parsed([WithKnob(p, name, r.knob) EXCEPT !.isAnimated = TRUE], "")

\* case BASENAME: the format is built from the frame count of this moment
parseBasename(p, name) ==
    Parsed([p EXCEPT !.basename = name,
                     !.formatString = FormatString(name, p.frames),
                     !.isAnimated = TRUE], "")

\* case FRAMES: p.frames is assigned before it is tested
parseFrames(p, n) ==
    IF n <= 0
    THEN Parsed([p EXCEPT !.frames = n], "number of frames must be greater than zero")
    ELSE Parsed([p EXCEPT !.frames = n, !.isAnimated = TRUE], "")

\* commands = append(commands, command)
parseCommand(p, stmt) ==
    Parsed([p EXCEPT !.commands = Append(p.commands, stmt)], "")

\* cases MOVE, SCALE, ROTATE: a knob named by the command is entered in the
\* symbol table with the value 0
parseTransform(p, stmt) ==
    IF stmt.name # ""
    THEN parseCommand([p EXCEPT !.symbols = SymbolTableSet(p.symbols, stmt.name, 0)],
                      stmt)
    ELSE parseCommand(p, stmt)

\* one statement of the loop of parse
parse(p, stmt) ==
    CASE stmt.kind = "VARY" ->
             parseVary(p, stmt.name, stmt.args[1], stmt.args[2],
                       stmt.args[3], stmt.args[4])
      [] stmt.kind = "BASENAME" -> parseBasename(p, stmt.name)
      [] stmt.kind = "FRAMES" -> parseFrames(p, stmt.args[1])
      [] stmt.kind \in {"MOVE", "SCALE", "ROTATE"} -> parseTransform(p, stmt)
      [] OTHER -> parseCommand(p, stmt)

\* case tEOF: an animation without a basename gets the default one
parseEOF(p) ==
    IF p.isAnimated /\ p.basename = ""
    THEN [p EXCEPT !.basename = DefaultBasename,
                   !.formatString = FormatString(DefaultBasename, p.frames)]
    ELSE p


\* getSymbolValue: the value of a symbol, or the error of a symbol that is
\* not in the table
getSymbolValue(symbols, symbolName) ==
    LET r == SymbolTableGet(symbols, symbolName)
    IN  IF r.found
        THEN [value |-> r.value, err |-> ""]
        ELSE [value |-> 0, err |-> "undefined symbol"]

\* degrees *= knob, for a knob that keeps the angle a whole number of
\* quarter turns
AngleTimes(degrees, knob) ==
    CASE (degrees.q * knob) % Unit = 0 ->
             Angle((degrees.q * knob) \div Unit, degrees.e)

\* The rendering state process works on: the Drawer, the symbol table and
\* the files written so far (each a path and the image saved there).
\* What a command returns: that state, the error and whether it panicked.
Ran(ctx, r) ==
    [d |-> r.d, symbols |-> ctx.symbols, files |-> ctx.files,
     err |-> r.err, panic |-> r.panic]

\* image.Save(name): the frame is written to the file
Saved(files, name, image) == Append(files, [path |-> name, image |-> image])

\* the multiplier of a transform command: its knob, or 1 without a knob
KnobOfCommand(ctx, c) ==
    IF c.name # ""
    THEN getSymbolValue(ctx.symbols, c.name)
    ELSE [value |-> Unit, err |-> ""]

\* one case of the switch of process
replayCommand(ctx, c) ==
    CASE c.kind = "MOVE" ->
             LET k == KnobOfCommand(ctx, c)
             IN  IF k.err # ""
                 THEN Ran(ctx, Ret(ctx.d, k.err))
                 ELSE Ran(ctx, Move(ctx.d, FMul(c.args[1], k.value),
                                    FMul(c.args[2], k.value),
                                    FMul(c.args[3], k.value)))
      [] c.kind = "SCALE" ->
             LET k == KnobOfCommand(ctx, c)
             IN  IF k.err # ""
                 THEN Ran(ctx, Ret(ctx.d, k.err))
                 ELSE Ran(ctx, Scale(ctx.d, FMul(c.args[1], k.value),
                                     FMul(c.args[2], k.value),
                                     FMul(c.args[3], k.value)))
      [] c.kind = "ROTATE" ->
             LET k == KnobOfCommand(ctx, c)
             IN  IF k.err # ""
                 THEN Ran(ctx, Ret(ctx.d, k.err))
                 ELSE Ran(ctx, Rotate(ctx.d, c.axis,
                                      IF c.name # ""
                                      THEN AngleTimes(c.args[1], k.value)
                                      ELSE c.args[1]))
      [] c.kind = "LINE" ->
             Ran(ctx, Line(ctx.d, c.args[1], c.args[2], c.args[3],
                           c.args[4], c.args[5], c.args[6]))
      [] c.kind = "BOX" ->
             Ran(ctx, Box(ctx.d, c.args[1], c.args[2], c.args[3],
                          c.args[4], c.args[5], c.args[6]))
      [] c.kind = "POP" -> Ran(ctx, Ret(Pop(ctx.d), ""))
      [] c.kind = "PUSH" -> Ran(ctx, Ret(Push(ctx.d), ""))
      [] c.kind = "SAVE" ->
             [Ran(ctx, Ret(ctx.d, ""))
                 EXCEPT !.files = Saved(ctx.files, c.name, ctx.d.frame)]
      [] c.kind = "DISPLAY" -> Ran(ctx, Ret(ctx.d, ""))
      [] c.kind = "SET" ->
             [Ran(ctx, Ret(ctx.d, ""))
                 EXCEPT !.symbols = SymbolTableSet(ctx.symbols, c.name, c.args[1])]
      [] c.kind = "SETALL" ->
             [Ran(ctx, Ret(ctx.d, ""))
                 EXCEPT !.symbols = [n \in DOMAIN ctx.symbols |-> c.args[1]]]

RECURSIVE replay(_, _, _)
\* for _, command := range p.commands { ...; if err != nil { return err } }
replay(ctx, commands, i) ==
    IF i > Len(commands)
    THEN ctx
    ELSE CHOOSE out \in
             {IF r.err # "" \/ r.panic THEN r ELSE replay(r, commands, i + 1) :
                 r \in {replayCommand(ctx, commands[i])}} : TRUE

\* for knob := range p.knobs { p.symbols.Set(knob, p.knobs[knob][frame]) }
\* a knob whose slice has no entry for the frame panics
KnobsShort(knobs, frame) ==
    \E n \in DOMAIN knobs : frame >= Len(knobs[n])

SetKnobs(symbols, knobs, frame) ==
    [n \in DOMAIN symbols \cup DOMAIN knobs |->
        IF n \in DOMAIN knobs THEN knobs[n][frame + 1] ELSE symbols[n]]


\* what image.Save returns: nil, or the error of the file system
SaveErrors == {"", "IOError"}

\* One turn of the frame loop of process: the knobs of the frame are put in
\* the symbol table, the commands are replayed, and in an animation the
\* frame is saved under its own name and the Drawer reset; io is what Save
\* returns.
processFrame(p, d, fs, frame, io) ==
    IF KnobsShort(p.knobs, frame)
    THEN [d |-> d, symbols |-> p.symbols, files |-> fs, err |-> "", panic |-> TRUE]
    ELSE CHOOSE out \in
             {IF r.err # "" \/ r.panic \/ ~p.isAnimated
              THEN [d |-> r.d, symbols |-> r.symbols, files |-> r.files,
                    err |-> r.err, panic |-> r.panic]
              ELSE IF io # ""
              THEN [d |-> r.d, symbols |-> r.symbols, files |-> r.files,
                    err |-> io, panic |-> FALSE]
              ELSE [d |-> Reset(r.d), symbols |-> r.symbols,
                    files |-> Saved(r.files, FramePath(p.formatString, frame),
                                    r.d.frame),
                    err |-> "", panic |-> FALSE] :
                 r \in {replay([d |-> d,
                                symbols |-> SetKnobs(p.symbols, p.knobs, frame),
                                files |-> fs, err |-> "", panic |-> FALSE],
                               p.commands, 1)}} : TRUE

RECURSIVE parseScript(_, _, _)
\* ParseString on a whole script: the loop of parse over its statements,
\* ended by the first error or panic, or by tEOF
parseScript(p, script, i) ==
    IF i > Len(script)
    THEN Parsed(parseEOF(p), "")
    ELSE CHOOSE out \in
             {IF r.err # "" \/ r.panic THEN r ELSE parseScript(r.p, script, i + 1) :
                 r \in {parse(p, script[i])}} : TRUE

\* ------------------------------------------------------- the worker pool
\* The pool of the animation scheduler: a queue of frame indices, a fixed
\* number of workers and what they have saved and reported.  Every job
\* renders in a context of its own; the commands and the knob table of the
\* parsed script are only read.
NoErr == [msg |-> "", frame |-> -1]

JobErr(msg, frame) == [msg |-> msg, frame |-> frame]

\* a worker: "idle" (waiting at the queue), "busy" (in a job) or "stopped"
\* (its job returned an error); the frames it took, in order
NewWorker == [state |-> "idle", taken |-> <<>>]

NewPool(p, n) ==
    [p        |-> p,
     queue    |-> [i \in 1..(IF p.isAnimated THEN p.frames ELSE 0) |-> i - 1],
     workers  |-> [w \in 1..n |-> NewWorker],
     files    |-> {},
     errs     |-> <<>>,
     joined   |-> FALSE,
     crashed  |-> FALSE,
     returned |-> NoErr]

\* the frame a busy worker is rendering
JobOf(worker) == worker.taken[Len(worker.taken)]

\* a worker receives the next frame index from the queue
takeJob(pl, w) ==
    [pl EXCEPT !.queue = Tail(pl.queue),
               !.workers[w] = [state |-> "busy",
                               taken |-> Append(pl.workers[w].taken,
                                                Head(pl.queue))]]

\* one job: the whole command list replayed on a new Drawer with the knob
\* values of the frame
renderJob(p, frame) ==
    IF KnobsShort(p.knobs, frame)
    THEN [d |-> NewDrawer(CanvasH, CanvasW), symbols |-> p.symbols,
          files |-> <<>>, err |-> "", panic |-> TRUE]
    ELSE replay([d |-> NewDrawer(CanvasH, CanvasW),
                 symbols |-> SetKnobs(p.symbols, p.knobs, frame),
                 files |-> <<>>, err |-> "", panic |-> FALSE],
                p.commands, 1)

\* a job saved its frame under the name of its index (the file is kept
\* with the worker that wrote it and the number of errors reported before
\* it was written); the worker resets its context and goes back to the
\* queue
saveJob(pl, w, frame, image) ==
    [pl EXCEPT !.files = pl.files \cup
                             {[path   |-> FramePath(pl.p.formatString, frame),
                               image  |-> image,
                               worker |-> w,
                               after  |-> Len(pl.errs)]},
               !.workers[w].state = "idle"]

\* a job returned an error: its worker takes no more jobs, the others go on
failJob(pl, w, frame, msg) ==
    [pl EXCEPT !.errs = Append(pl.errs, [err |-> JobErr(msg, frame),
                                         worker |-> w]),
               !.workers[w].state = "stopped"]

\* the pool counts as drained as soon as one worker has stopped
Drained_oneStopped(pl) ==
    \/ \E w \in DOMAIN pl.workers : pl.workers[w].state = "stopped"
    \/ \A w \in DOMAIN pl.workers :
           pl.workers[w].state = "idle" /\ pl.queue = <<>>

\* no worker will take another job
Drained(pl) ==
    \A w \in DOMAIN pl.workers :
        \/ pl.workers[w].state = "stopped"
        \/ pl.workers[w].state = "idle" /\ pl.queue = <<>>

\* the pool is joined: the caller gets the first error that was observed
joinPool(pl) ==
    [pl EXCEPT !.joined = TRUE,
               !.returned = IF pl.errs = <<>> THEN NoErr ELSE pl.errs[1].err]

\* ============================================================ state machine
VARIABLES
    drawer,   \* the Parser's Drawer: frame, em, cs and the heap behind cs
    status,   \* "running", "error" (a command returned an error) or "panic"
    ncmds,    \* commands replayed so far in the current frame
    nframe,   \* index of the frame being rendered
    last,     \* the most recent operation: name, arguments, error, panic
    prev,     \* the operation before it
    pre,      \* what the Drawer looked like before the most recent operation
    pre2,     \* the stack as it was before the operation before it
    imgA,     \* SpecLine: the image the line is drawn on from a to b
    imgB,     \* SpecLine: the image the line is drawn on from b to a
    job,      \* SpecLine: the two endpoints and which drawings are done
    parser,   \* the Parser: commands, frames, basename, format, symbols, knobs
    files,    \* the files written so far, in order: path and image
    pool,     \* SpecPool: the job queue, the workers and what they returned
    shade,    \* SpecShade: the arguments of FlatShading and what it returned
    mult      \* SpecMatrix: the operands of Multiply and what it returned

vars == <<drawer, status, ncmds, nframe, last, prev, pre, pre2, imgA, imgB, job,
          parser, files, pool, shade, mult>>

pairVars == <<imgA, imgB, job, shade, mult>>

scriptVars == <<parser, files, pool>>

\* the Drawer with every stack entry replaced by the matrix it points to
View(d) ==
    [frame |-> d.frame,
     em    |-> d.em,
     cs    |-> [i \in 1..Len(d.cs) |-> Load(d.heap, d.cs[i])]]

Op(name, args, err, panic) ==
    [op |-> name, args |-> args, err |-> err, panic |-> panic]

Shading(p, I_a, K_a, I_i, K_d, K_s, view, lights, done, color) ==
    [p |-> p, I_a |-> I_a, K_a |-> K_a, I_i |-> I_i, K_d |-> K_d, K_s |-> K_s,
     view |-> view, lights |-> lights, done |-> done, color |-> color]

NoShade ==
    Shading(<<>>, <<0, 0, 0>>, <<0, 0, 0>>, <<0, 0, 0>>, <<0, 0, 0>>, <<0, 0, 0>>,
            DefaultViewVector, <<>>, FALSE, <<0, 0, 0>>)

NoMult ==
    [m |-> NewMatrix(0, 0), m2 |-> NewMatrix(0, 0), done |-> FALSE,
     ret |-> [err |-> "", product |-> NewMatrix(0, 0)]]

NoJob == [a |-> <<0, 0, 0>>, b |-> <<0, 0, 0>>, doneA |-> FALSE, doneB |-> FALSE]

\* no pool: the frames are rendered by the loop of process
NoPool == NewPool(NewParser, 0)

\* NewParser: a fresh Drawer, nothing replayed yet
Init ==
    /\ drawer = NewDrawer(CanvasH, CanvasW)
    /\ status = "running"
    /\ ncmds = 0
    /\ nframe = 0
    /\ last = Op("NewDrawer", <<>>, "", FALSE)
    /\ prev = Op("", <<>>, "", FALSE)
    /\ pre = View(NewDrawer(CanvasH, CanvasW))
    /\ pre2 = <<>>
    /\ imgA = NewImage(CanvasH, CanvasW)
    /\ imgB = NewImage(CanvasH, CanvasW)
    /\ job = NoJob
    /\ parser = NewParser
    /\ files = <<>>
    /\ pool = NoPool
    /\ shade = NoShade
    /\ mult = NoMult

\* process: one more command of the list is replayed in this frame
CanReplay == status = "running" /\ nframe < MaxFrames /\ ncmds < MaxCmds

\* the command ran and returned r; an error ends process
Replayed(name, args, r) ==
    /\ drawer' = r.d
    /\ status' = IF r.panic THEN "panic"
                 ELSE IF r.err # "" THEN "error" ELSE "running"
    /\ ncmds' = ncmds + 1
    /\ last' = Op(name, args, r.err, r.panic)
    /\ prev' = last
    /\ pre' = View(drawer)
    /\ pre2' = pre.cs
    /\ UNCHANGED <<nframe, pairVars, scriptVars>>

MoveArgs == {<<Fx(1), 0, 0>>}

ScaleArgs == {<<Fx(2), Fx(2), Fx(2)>>}

\* 90 degrees, and the angle whose double conversion is a quarter turn
RotateArgs == {<<"x", Angle(1, 1)>>, <<"y", Angle(1, 2)>>,
               <<"z", Angle(1, 2)>>, <<"w", Angle(1, 1)>>}

LineArgs == {<<0, 0, 0, Fx(1), Fx(2), 0>>, <<Fx(1), Half, Fx(1), Fx(1), Fx(2), Fx(1)>>}

BoxArgs == {<<0, Fx(1), 0, Fx(1), Fx(1), Fx(1)>>}

MoveCmd ==
    \E v \in MoveArgs :
        /\ CanReplay
        /\ Replayed("Move", v, Move(drawer, v[1], v[2], v[3]))

ScaleCmd ==
    \E v \in ScaleArgs :
        /\ CanReplay
        /\ Replayed("Scale", v, Scale(drawer, v[1], v[2], v[3]))

RotateCmd ==
    \E v \in RotateArgs :
        /\ CanReplay
        /\ Replayed("Rotate", v, Rotate(drawer, v[1], v[2]))

LineCmd ==
    \E v \in LineArgs :
        /\ CanReplay
        /\ Replayed("Line", v, Line(drawer, v[1], v[2], v[3], v[4], v[5], v[6]))

BoxCmd ==
    \E v \in BoxArgs :
        /\ CanReplay
        /\ Replayed("Box", v, Box(drawer, v[1], v[2], v[3], v[4], v[5], v[6]))

PushCmd ==
    /\ CanReplay
    /\ Len(drawer.cs) < MaxDepth
    /\ Replayed("Push", <<>>, Ret(Push(drawer), ""))

PopCmd ==
    /\ CanReplay
    /\ Replayed("Pop", <<>>, Ret(Pop(drawer), ""))

\* the end of an animated frame: the frame is saved and the Drawer reset
EndFrame ==
    /\ status = "running"
    /\ nframe < MaxFrames
    /\ drawer' = Reset(drawer)
    /\ nframe' = nframe + 1
    /\ ncmds' = 0
    /\ last' = Op("Reset", <<>>, "", FALSE)
    /\ prev' = last
    /\ pre' = View(drawer)
    /\ pre2' = pre.cs
    /\ UNCHANGED <<status, pairVars, scriptVars>>

Next ==
    \/ MoveCmd
    \/ ScaleCmd
    \/ RotateCmd
    \/ LineCmd
    \/ BoxCmd
    \/ PushCmd
    \/ PopCmd
    \/ EndFrame

Spec == Init /\ [][Next]_vars

\* ------------------------------------------------- the Image, called directly
Red == <<255, 0, 0>>

CanDraw == ncmds < MaxCalls

\* an Image method ran on the Drawer's frame; its error goes to the caller
Drew(name, args, image, err) ==
    /\ drawer' = [drawer EXCEPT !.frame = image]
    /\ ncmds' = ncmds + 1
    /\ last' = Op(name, args, err, FALSE)
    /\ prev' = last
    /\ pre' = View(drawer)
    /\ pre2' = pre.cs
    /\ UNCHANGED <<status, nframe, pairVars, scriptVars>>

\* x, y, z, colour: one pixel written at two depths in two colours, a second
\* pixel, and one point beyond each side of the canvas
SetArgs ==
    {<<0, 0, z, c>> : z \in {Fx(1), Fx(2)}, c \in {White, Red}}
    \cup {<<CanvasW - 1, 0, Fx(1), White>>}
    \cup {<<-1, 0, Fx(1), White>>, <<CanvasW, 0, Fx(2), Red>>,
          <<0, -1, Fx(2), White>>, <<0, CanvasH, Fx(1), Red>>}

DrawLineArgs ==
    {<<0, 0, 0, Fx(2), Fx(1), Fx(2), White>>,
     <<Fx(1), Fx(2), Fx(1), Fx(1), -Unit, Fx(1), Red>>}

Points0 == NewMatrix(4, 0)

Points1 == AddPoint(Points0, 0, 0, Fx(1))

Points2 == AddEdge(Points0, 0, 0, Fx(1), Fx(1), Fx(1), Fx(1))

\* wound so that the normal has a positive z
Points3 == AddTriangle(Points0, 0, 0, Fx(1), Fx(2), 0, Fx(1), 0, Fx(2), Fx(1))

\* the same triangle wound the other way: the normal has a negative z
Points3Back == AddTriangle(Points0, 0, 0, Fx(1), 0, Fx(2), Fx(1), Fx(2), 0, Fx(1))

\* three points on one line: the normal is zero
Points3Flat == AddTriangle(Points0, 0, 0, Fx(1), Fx(1), Fx(1), Fx(1), Fx(2), Fx(2), Fx(1))

\* a front-facing triangle with pixels strictly inside its three edges
Points3Wide == AddTriangle(Points0, 0, 0, Fx(1), Fx(4), 0, Fx(1), 0, Fx(4), Fx(1))

GeometryArgs ==
    {Points0, Points1, Points2, Points3, Points3Back, Points3Flat, Points3Wide}

ImgSet ==
    \E v \in SetArgs :
        /\ CanDraw
        /\ Drew("set", v, set(drawer.frame, v[1], v[2], v[3], v[4]), "")

ImgDrawLine ==
    \E v \in DrawLineArgs :
        /\ CanDraw
        /\ Drew("DrawLine", v,
                DrawLine(drawer.frame, v[1], v[2], v[3], v[4], v[5], v[6], v[7]),
                "")

ImgDrawLines ==
    \E g \in GeometryArgs :
        /\ CanDraw
        /\ LET r == DrawLines(drawer.frame, g, White)
           IN  Drew("DrawLines", <<g>>, r.image, r.err)

ImgDrawPolygons ==
    \E g \in GeometryArgs :
        /\ CanDraw
        /\ LET r == DrawPolygons(drawer.frame, g, Red)
           IN  Drew("DrawPolygons", <<g>>, r.image, r.err)

ImgFill ==
    /\ CanDraw
    /\ Drew("Fill", <<Black>>, Fill(drawer.frame, Black), "")

NextImage ==
    \/ ImgSet
    \/ ImgDrawLine
    \/ ImgDrawLines
    \/ ImgDrawPolygons
    \/ ImgFill

SpecImage == Init /\ [][NextImage]_vars

\* ------------------------------------------- a script parsed, then processed
InitParse ==
    /\ drawer = NewDrawer(CanvasH, CanvasW)
    /\ status = "parsing"
    /\ ncmds = 0
    /\ nframe = 0
    /\ last = Op("NewParser", <<>>, "", FALSE)
    /\ prev = Op("", <<>>, "", FALSE)
    /\ pre = NewParser
    /\ pre2 = <<>>
    /\ imgA = NewImage(CanvasH, CanvasW)
    /\ imgB = NewImage(CanvasH, CanvasW)
    /\ job = NoJob
    /\ parser = NewParser
    /\ files = <<>>
    /\ pool = NoPool
    /\ shade = NoShade
    /\ mult = NoMult

CanParse == status = "parsing" /\ ncmds < MaxStmts

\* parse read one statement and it returned r; an error or a panic ends
\* ParseString
ParsedStmt(stmt, r) ==
    /\ parser' = r.p
    /\ status' = IF r.panic THEN "panic"
                 ELSE IF r.err # "" THEN "error" ELSE "parsing"
    /\ ncmds' = ncmds + 1
    /\ last' = Op(stmt.kind, <<stmt>>, r.err, r.panic)
    /\ prev' = last
    /\ pre' = parser
    /\ UNCHANGED <<drawer, nframe, pre2, pairVars, files, pool>>

FramesArgs == {0, 2, 11}

BasenameArgs == {"anim"}

\* name, startFrame, endFrame, startValue, endValue
VaryArgs ==
    {Stmt("VARY", "k", "", v) :
        v \in {<<0, 4, 0, Fx(10)>>, <<0, 0, Fx(1), Fx(1)>>, <<1, 1, Fx(3), Fx(4)>>,
               <<-1, 0, 0, Fx(1)>>, <<1, 0, 0, Fx(1)>>, <<2, 2, Fx(5), Fx(5)>>}}
    \cup {Stmt("VARY", "j", "", <<0, 1, Fx(1), Fx(2)>>)}

CommandArgs ==
    {Stmt("PUSH", "", "", <<>>),
     Stmt("MOVE", "k", "", <<Fx(1), 0, 0>>),
     Stmt("LINE", "", "", <<0, 0, 0, 0, Fx(1), 0>>)}

ParseFrames ==
    \E n \in FramesArgs :
        /\ CanParse
        /\ LET stmt == Stmt("FRAMES", "", "", <<n>>)
           IN  ParsedStmt(stmt, parse(parser, stmt))

ParseBasename ==
    \E name \in BasenameArgs :
        /\ CanParse
        /\ LET stmt == Stmt("BASENAME", name, "", <<>>)
           IN  ParsedStmt(stmt, parse(parser, stmt))

ParseVary ==
    \E stmt \in VaryArgs :
        /\ CanParse
        /\ ParsedStmt(stmt, parse(parser, stmt))

ParseCommand ==
    \E stmt \in CommandArgs :
        /\ CanParse
        /\ ParsedStmt(stmt, parse(parser, stmt))

\* the end of the script: parse returns the commands and process starts,
\* with one frame when the script is no animation
ParseEOF ==
    /\ status = "parsing"
    /\ LET p == parseEOF(parser)
       IN  parser' = IF p.isAnimated THEN p ELSE [p EXCEPT !.frames = 1]
    /\ status' = "running"
    /\ nframe' = 0
    /\ last' = Op("EOF", <<>>, "", FALSE)
    /\ prev' = last
    /\ pre' = parser
    /\ UNCHANGED <<drawer, ncmds, pre2, pairVars, files, pool>>

\* one frame of the loop of process
ProcessFrame ==
    /\ status = "running"
    /\ nframe < parser.frames
    /\ \E io \in SaveErrors :
       \E r \in {processFrame(parser, drawer, files, nframe, io)} :
           /\ drawer' = r.d
           /\ parser' = [parser EXCEPT !.symbols = r.symbols]
           /\ files' = r.files
           /\ status' = IF r.panic THEN "panic"
                        ELSE IF r.err # "" THEN "error" ELSE "running"
           /\ nframe' = IF r.panic \/ r.err # "" THEN nframe ELSE nframe + 1
           /\ last' = Op("frame", <<nframe>>, r.err, r.panic)
    /\ prev' = last
    /\ pre' = parser
    /\ UNCHANGED <<ncmds, pre2, pairVars, pool>>

\* every frame is rendered: process returns (after MakeAnimation, in an
\* animation)
ProcessEnd ==
    /\ status = "running"
    /\ nframe >= parser.frames
    /\ status' = "done"
    /\ last' = Op("done", <<>>, "", FALSE)
    /\ prev' = last
    /\ pre' = parser
    /\ UNCHANGED <<drawer, ncmds, nframe, pre2, pairVars, scriptVars>>

NextParse ==
    \/ ParseFrames
    \/ ParseBasename
    \/ ParseVary
    \/ ParseCommand
    \/ ParseEOF
    \/ ProcessFrame
    \/ ProcessEnd

SpecParse == InitParse /\ [][NextParse]_vars

\* ------------- an animation rendered by the loop of process and by the pool
\* the scripts: a knob that moves the line one pixel per frame; a knob no
\* vary defines, set at the end of the command list; a line, then a rotate
\* about an axis that is none
Scripts ==
    {<<Stmt("FRAMES", "", "", <<PoolFrames>>),
       Stmt("VARY", "k", "", <<0, PoolFrames - 1, 0, Fx(PoolFrames)>>),
       Stmt("PUSH", "", "", <<>>),
       Stmt("MOVE", "k", "", <<Fx(1), 0, 0>>),
       Stmt("LINE", "", "", <<0, 0, 0, 0, Fx(1), 0>>)>>,
     <<Stmt("FRAMES", "", "", <<PoolFrames>>),
       Stmt("PUSH", "", "", <<>>),
       Stmt("MOVE", "k", "", <<Fx(1), 0, 0>>),
       Stmt("LINE", "", "", <<0, 0, 0, 0, Fx(1), 0>>),
       Stmt("SET", "k", "", <<Fx(1)>>)>>,
     <<Stmt("FRAMES", "", "", <<PoolFrames>>),
       Stmt("PUSH", "", "", <<>>),
       Stmt("LINE", "", "", <<0, 0, 0, 0, Fx(1), 0>>),
       Stmt("ROTATE", "", "line", <<Angle(1, 1)>>)>>}

InitPool ==
    \E script \in Scripts :
        \E r \in {parseScript(NewParser, script, 1)} :
            /\ drawer = NewDrawer(CanvasH, CanvasW)
            /\ status = IF r.panic THEN "panic"
                        ELSE IF r.err # "" THEN "error" ELSE "running"
            /\ ncmds = Len(script)
            /\ nframe = 0
            /\ last = Op("EOF", <<>>, r.err, r.panic)
            /\ prev = Op("", <<>>, "", FALSE)
            /\ pre = r.p
            /\ pre2 = <<>>
            /\ imgA = NewImage(CanvasH, CanvasW)
            /\ imgB = NewImage(CanvasH, CanvasW)
            /\ job = NoJob
            /\ parser = r.p
            /\ files = <<>>
            /\ pool = IF r.err # "" \/ r.panic
                      THEN NoPool
                      ELSE NewPool(r.p, Workers)
            /\ shade = NoShade
            /\ mult = NoMult

\* the pool renders the script once the loop of process has returned
PoolRuns == status # "running" /\ ~pool.joined /\ ~pool.crashed

PoolStep(pl) ==
    /\ pool' = pl
    /\ UNCHANGED <<drawer, status, ncmds, nframe, last, prev, pre, pre2,
                   pairVars, parser, files>>

\* a worker that waits at the queue receives a frame index
Take ==
    \E w \in DOMAIN pool.workers :
        /\ PoolRuns
        /\ pool.workers[w].state = "idle"
        /\ pool.queue # <<>>
        /\ PoolStep(takeJob(pool, w))

\* a worker runs its job to the end: the commands are replayed and the
\* frame is saved, or the first error stops the worker; a panic ends the
\* program
Render ==
    \E w \in DOMAIN pool.workers, io \in SaveErrors :
        /\ PoolRuns
        /\ pool.workers[w].state = "busy"
        /\ \E frame \in {JobOf(pool.workers[w])} :
           \E r \in {renderJob(pool.p, frame)} :
               PoolStep(IF r.panic
                        THEN [pool EXCEPT !.crashed = TRUE]
                        ELSE IF r.err # ""
                        THEN failJob(pool, w, frame, r.err)
                        ELSE IF io # ""
                        THEN failJob(pool, w, frame, io)
                        ELSE saveJob(pool, w, frame, r.d.frame))

\* every worker has returned: the caller is given the first error
Join ==
    /\ PoolRuns
    /\ Drained(pool)
    /\ PoolStep(joinPool(pool))

NextPool ==
    \/ ProcessFrame
    \/ ProcessEnd
    \/ Take
    \/ Render
    \/ Join

SpecPool == InitPool /\ [][NextPool]_vars

\* --------------------------------- one line drawn both ways on blank images
LineCoords == {-Unit, 0, Half, Unit, Unit + Half, Fx(2), Fx(3)}

InitLine ==
    /\ drawer = NewDrawer(CanvasH, CanvasW)
    /\ status = "running"
    /\ ncmds = 0
    /\ nframe = 0
    /\ last = Op("NewDrawer", <<>>, "", FALSE)
    /\ prev = Op("", <<>>, "", FALSE)
    /\ pre = View(NewDrawer(CanvasH, CanvasW))
    /\ pre2 = <<>>
    /\ imgA = NewImage(CanvasH, CanvasW)
    /\ imgB = NewImage(CanvasH, CanvasW)
    /\ \E x0 \in LineCoords, y0 \in LineCoords, x1 \in LineCoords, y1 \in LineCoords :
           job = [a |-> <<x0, y0, 0>>, b |-> <<x1, y1, Fx(1)>>,
                  doneA |-> FALSE, doneB |-> FALSE]
    /\ parser = NewParser
    /\ files = <<>>
    /\ pool = NoPool
    /\ shade = NoShade
    /\ mult = NoMult

DrawForward ==
    /\ ~job.doneA
    /\ imgA' = DrawLine(imgA, job.a[1], job.a[2], job.a[3],
                        job.b[1], job.b[2], job.b[3], White)
    /\ job' = [job EXCEPT !.doneA = TRUE]
    /\ UNCHANGED <<drawer, status, ncmds, nframe, last, prev, pre, pre2, imgB,
                   shade, mult, scriptVars>>

DrawReverse ==
    /\ ~job.doneB
    /\ imgB' = DrawLine(imgB, job.b[1], job.b[2], job.b[3],
                        job.a[1], job.a[2], job.a[3], White)
    /\ job' = [job EXCEPT !.doneB = TRUE]
    /\ UNCHANGED <<drawer, status, ncmds, nframe, last, prev, pre, pre2, imgA,
                   shade, mult, scriptVars>>

NextLine ==
    \/ DrawForward
    \/ DrawReverse

SpecLine == InitLine /\ [][NextLine]_vars

\* ------------------------------------------------------------- SpecShade
\* FlatShading applied once to arguments drawn from small sets: a triangle
\* facing +z or -z, nought to two lights along the axes, and intensities and
\* reflection constants per channel.
TriangleArgs ==
    { << <<0, 0, 0>>, <<Fx(1), 0, 0>>, <<0, Fx(1), 0>> >>,
      << <<0, 0, 0>>, <<0, Fx(1), 0>>, <<Fx(1), 0, 0>> >> }

LightArgs ==
    { <<>>,
      << <<0, 0, Fx(1)>> >>,
      << <<Fx(1), 0, 0>> >>,
      << <<0, 0, Fx(1)>>, <<0, 0, Fx(2)>> >>,
      << <<0, 0, -Fx(2)>>, <<0, 0, Fx(1)>> >> }

AmbientArgs == { <<0, 0, 0>>, <<Fx(255), Fx(100), 0>>, <<-Fx(10), 0, Fx(255)>> }

IntensityArgs == { <<Fx(255), Fx(255), Fx(255)>>, <<Fx(100), 0, Fx(200)>> }

ConstantArgs == { <<Unit, Unit, Unit>>, <<Half, 0, Unit>> }

ViewArgs == { DefaultViewVector, <<0, 0, Unit>> }

InitShade ==
    /\ drawer = NewDrawer(CanvasH, CanvasW)
    /\ status = "running"
    /\ ncmds = 0
    /\ nframe = 0
    /\ last = Op("NewDrawer", <<>>, "", FALSE)
    /\ prev = Op("", <<>>, "", FALSE)
    /\ pre = View(NewDrawer(CanvasH, CanvasW))
    /\ pre2 = <<>>
    /\ imgA = NewImage(CanvasH, CanvasW)
    /\ imgB = NewImage(CanvasH, CanvasW)
    /\ job = NoJob
    /\ parser = NewParser
    /\ files = <<>>
    /\ pool = NoPool
    /\ mult = NoMult
    /\ \E p \in TriangleArgs, lights \in LightArgs, I_a \in AmbientArgs,
          K_a \in ConstantArgs, I_i \in IntensityArgs, K_d \in ConstantArgs,
          K_s \in ConstantArgs, view \in ViewArgs :
           shade = Shading(p, I_a, K_a, I_i, K_d, K_s, view, lights, FALSE,
                           <<0, 0, 0>>)

Shade ==
    /\ ~shade.done
    /\ \E color \in {FlatShading(shade.p[1], shade.p[2], shade.p[3], shade.I_a,
                                 shade.K_a, shade.I_i, shade.K_d, shade.K_s,
                                 shade.view, shade.lights)} :
           shade' = [shade EXCEPT !.done = TRUE, !.color = color]
    /\ UNCHANGED <<drawer, status, ncmds, nframe, last, prev, pre, pre2,
                   imgA, imgB, job, mult, scriptVars>>

NextShade == Shade

SpecShade == InitShade /\ [][NextShade]_vars

\* ------------------------------------------------------------ SpecMatrix
\* Multiply applied once to two operands drawn from small sets, after the
\* right operand has been grown by AddColumn as a geometry buffer is.
MaxCols == 2

LeftArgs ==
    { IdentityMatrix(4), MakeTranslation(Fx(1), Fx(2), 0),
      MakeDilation(Fx(2), Fx(2), Fx(2)), IdentityMatrix(3), NewMatrix(2, 4),
      NewMatrix(4, 2) }

RightArgs ==
    { NewMatrix(4, 0), IdentityMatrix(4), IdentityMatrix(3), NewMatrix(3, 1),
      NewMatrix(2, 1) }

ColumnArgs == { <<Fx(1), Fx(2), 0, Unit>>, <<0, Fx(1), Fx(3), Unit>>, <<Fx(1), 0, Unit>> }

InitMatrix ==
    /\ drawer = NewDrawer(CanvasH, CanvasW)
    /\ status = "running"
    /\ ncmds = 0
    /\ nframe = 0
    /\ last = Op("NewDrawer", <<>>, "", FALSE)
    /\ prev = Op("", <<>>, "", FALSE)
    /\ pre = View(NewDrawer(CanvasH, CanvasW))
    /\ pre2 = <<>>
    /\ imgA = NewImage(CanvasH, CanvasW)
    /\ imgB = NewImage(CanvasH, CanvasW)
    /\ job = NoJob
    /\ parser = NewParser
    /\ files = <<>>
    /\ pool = NoPool
    /\ shade = NoShade
    /\ \E m \in LeftArgs, m2 \in RightArgs :
           mult = [NoMult EXCEPT !.m = m, !.m2 = m2]

\* m2.AddColumn(column): a column of the wrong length is refused
AddedColumn ==
    /\ ~mult.done
    /\ mult.m2.cols < MaxCols
    /\ \E column \in ColumnArgs :
           mult' = [mult EXCEPT !.m2 = AddColumn(mult.m2, column)]
    /\ UNCHANGED <<drawer, status, ncmds, nframe, last, prev, pre, pre2,
                   imgA, imgB, job, shade, scriptVars>>

\* m.Multiply(m2)
Multiplied ==
    /\ ~mult.done
    /\ \E r \in {Multiply(mult.m, mult.m2)} :
           mult' = [mult EXCEPT !.done = TRUE, !.ret = r]
    /\ UNCHANGED <<drawer, status, ncmds, nframe, last, prev, pre, pre2,
                   imgA, imgB, job, shade, scriptVars>>

NextMatrix ==
    \/ AddedColumn
    \/ Multiplied

SpecMatrix == InitMatrix /\ [][NextMatrix]_vars

\* ================================================================== claims
Depths == {Fx(1), Fx(2), Fx(3)}

Colours == {White, Red}

\* set at (x, y) first with (zf, cf), then with (zs, cs)
SetTwice(image, x, y, zf, cf, zs, cs) ==
    set(set(image, x, y, zf, cf), x, y, zs, cs)

ShowsAt(image, x, y, z, c) ==
    image.frame[y][x] = c /\ image.zBuffer[y][x] = z

\* C1 as stated: from any starting image, two writes to one in-canvas pixel
\* at depths z1 < z2, in either order, leave the pixel showing the colour
\* and the depth of the z2 write.
C1_OrderIndependentAnyStart ==
    \A x \in 0..(drawer.frame.width - 1), y \in 0..(drawer.frame.height - 1) :
      \A z1 \in Depths, z2 \in Depths, c1 \in Colours, c2 \in Colours :
        z1 < z2 =>
          /\ ShowsAt(SetTwice(drawer.frame, x, y, z1, c1, z2, c2), x, y, z2, c2)
          /\ ShowsAt(SetTwice(drawer.frame, x, y, z2, c2, z1, c1), x, y, z2, c2)

\* C1 amended: the same, for a starting image whose stored depth at the
\* pixel is below z2 (as on a fresh image); either order then leaves the
\* pixel showing the z2 write.
C1_OrderIndependent ==
    \A x \in 0..(drawer.frame.width - 1), y \in 0..(drawer.frame.height - 1) :
      \A z1 \in Depths, z2 \in Depths, c1 \in Colours, c2 \in Colours :
        (z1 < z2 /\ drawer.frame.zBuffer[y][x] < z2) =>
          /\ ShowsAt(SetTwice(drawer.frame, x, y, z1, c1, z2, c2), x, y, z2, c2)
          /\ ShowsAt(SetTwice(drawer.frame, x, y, z2, c2, z1, c1), x, y, z2, c2)

IsSet(op) == op.op = "set"

InsideCanvas(x, y) ==
    x >= 0 /\ x < CanvasW /\ y >= 0 /\ y < CanvasH

\* the nearer write came first, the farther one second and lost
C1_Witness ==
    /\ IsSet(last) /\ IsSet(prev)
    /\ InsideCanvas(last.args[1], last.args[2])
    /\ last.args[1] = prev.args[1] /\ last.args[2] = prev.args[2]
    /\ last.args[3] < prev.args[3]
    /\ last.args[4] # prev.args[4]
    /\ ShowsAt(pre.frame, prev.args[1], prev.args[2], prev.args[3], prev.args[4])
    /\ ShowsAt(drawer.frame, prev.args[1], prev.args[2], prev.args[3], prev.args[4])

\* C2: a set outside the canvas returns without error and changes no pixel
\* and no depth entry.
C2_OutOfCanvasDiscarded ==
    (IsSet(last) /\ ~InsideCanvas(last.args[1], last.args[2])) =>
        /\ drawer.frame = pre.frame
        /\ last.err = ""
        /\ ~last.panic

C2_Witness ==
    /\ IsSet(last)
    /\ last.args[1] = CanvasW
    /\ drawer.frame # NewImage(CanvasH, CanvasW)
    /\ drawer.frame = pre.frame

Top(s) == s[Len(s)]

\* C3: Push immediately followed by Pop leaves the depth of the stack and
\* the current transform as they were, from every reachable Drawer state and
\* on every run in which a Pop follows a Push.
C3_PushPopRestores ==
    /\ LET after == View(Pop(Push(drawer))).cs
           before == View(drawer).cs
       IN  /\ Len(after) = Len(before)
           /\ Len(before) > 0 => Top(after) = Top(before)
    /\ (last.op = "Pop" /\ prev.op = "Push") =>
           /\ Len(View(drawer).cs) = Len(pre2)
           /\ Len(pre2) > 0 => Top(View(drawer).cs) = Top(pre2)

C3_Witness ==
    /\ last.op = "Pop" /\ prev.op = "Push"
    /\ Len(drawer.cs) > 0
    /\ Top(View(drawer).cs) # IdentityMatrix(4)
    /\ Top(View(drawer).cs) = Top(pre2)

\* C4 as stated: a Pop on a stack of exactly one element is a no-op, the
\* stack still holds that element afterwards.
C4_PopOfLastIsNoOp ==
    (last.op = "Pop" /\ Len(pre.cs) = 1) => View(drawer).cs = pre.cs

TransformOps == {"Move", "Scale", "Rotate"}

\* the drawing statements replayed here, one for each draw mode
DrawingOps == {"Line", "Box"}

\* C5 as stated: whenever a transform or a drawing statement is executed the
\* stack is non-empty and its bottom element is the identity.
C5_StackSeededWithIdentity ==
    (last.op \in TransformOps \cup DrawingOps) =>
        /\ Len(pre.cs) > 0
        /\ pre.cs[1] = IdentityMatrix(4)

\* the matrix a transform command builds from its arguments
TransformOf(op) ==
    CASE op.op = "Move"  -> MakeTranslation(op.args[1], op.args[2], op.args[3])
      [] op.op = "Scale" -> MakeDilation(op.args[1], op.args[2], op.args[3])
      [] op.op = "Rotate" /\ op.args[1] = "x" -> MakeRotX(degreesToRadians(op.args[2]))
      [] op.op = "Rotate" /\ op.args[1] = "y" -> MakeRotY(degreesToRadians(op.args[2]))
      [] op.op = "Rotate" /\ op.args[1] = "z" -> MakeRotZ(degreesToRadians(op.args[2]))

Composed(op) == op.op \in TransformOps /\ op.err = "" /\ ~op.panic

\* C6: a Move, Scale or Rotate replaces the top M of the stack by M * T and
\* changes no other element; two in a row leave (M * T1) * T2.
C6_RightCompose ==
    /\ Composed(last) =>
         LET now == View(drawer).cs
             n == Len(pre.cs)
         IN  /\ Len(now) = n
             /\ Top(now) = Multiply(Top(pre.cs), TransformOf(last)).product
             /\ \A i \in 1..(n - 1) : now[i] = pre.cs[i]
    /\ (Composed(last) /\ Composed(prev)) =>
         Top(View(drawer).cs) =
             Multiply(Multiply(Top(pre2), TransformOf(prev)).product,
                      TransformOf(last)).product

C6_Witness ==
    /\ Composed(last) /\ Composed(prev)
    /\ last.op = "Move" /\ prev.op = "Scale"
    /\ Len(drawer.cs) = 2
    /\ Top(View(drawer).cs) # View(drawer).cs[1]

ValidAxes == {"x", "y", "z"}

\* C7: Rotate with an axis other than x, y, z returns the InvalidAxis error
\* and leaves the stack, the geometry buffer and the frame buffer unchanged.
C7_InvalidAxisRejected ==
    (last.op = "Rotate" /\ last.args[1] \notin ValidAxes) =>
        /\ last.err = "InvalidAxis"
        /\ ~last.panic
        /\ View(drawer) = pre

C7_Witness ==
    /\ last.op = "Rotate" /\ last.args[1] = "w"
    /\ last.err = "InvalidAxis"
    /\ Len(drawer.cs) > 0
    /\ Top(View(drawer).cs) # IdentityMatrix(4)

TooFewPoints(op) ==
    \/ op.op = "DrawLines" /\ op.args[1].cols < 2
    \/ op.op = "DrawPolygons" /\ op.args[1].cols < 3

\* C8: DrawLines on fewer than 2 points, and DrawPolygons on fewer than 3,
\* return the InsufficientGeometry error and write no pixel and no depth.
C8_InsufficientGeometry ==
    TooFewPoints(last) =>
        /\ last.err = "InsufficientGeometry"
        /\ drawer.frame = pre.frame

C8_Witness ==
    /\ last.op = "DrawPolygons" /\ last.args[1].cols = 2
    /\ last.err = "InsufficientGeometry"
    /\ prev.op = "DrawLines" /\ prev.args[1].cols = 1
    /\ prev.err = "InsufficientGeometry"
    /\ drawer.frame = pre.frame

\* C9: when a drawing statement returns, the geometry buffer has no column
\* and the stack is as it was; no statement starts with geometry left over.
C9_GeometryCleared ==
    /\ (last.op \in DrawingOps /\ ~last.panic) =>
           /\ drawer.em.cols = 0
           /\ View(drawer).cs = pre.cs
    /\ status = "running" => drawer.em.cols = 0

C9_Witness ==
    /\ last.op = "Box" /\ ~last.panic /\ last.err = ""
    /\ prev.op = "Line" /\ ~prev.panic
    /\ drawer.frame # pre.frame
    /\ drawer.em.cols = 0

\* the pixels a drawing on a blank image has set
Pixels(image) ==
    {p \in (0..(image.width - 1)) \X (0..(image.height - 1)) :
        image.zBuffer[p[2]][p[1]] # NegInf}

\* C10 as stated: a line drawn from a to b and the same line drawn from b to
\* a, on equal blank images, set exactly the same pixels.
C10_LineSymmetry ==
    (job.doneA /\ job.doneB) => Pixels(imgA) = Pixels(imgB)

\* z-component of the winding normal of the triangle in columns i, i+1, i+2:
\* (p1 - p0) x (p2 - p0), as an exact product of the fixed-point coordinates
NormalZ(em, i) ==
    LET x(k) == em.data[1][i + k]
        y(k) == em.data[2][i + k]
    IN  (x(1) - x(0)) * (y(2) - y(0)) - (y(1) - y(0)) * (x(2) - x(0))

\* the three edges of the one triangle of em, drawn in the order p0p1, p1p2, p2p0
EdgesDrawn(image, em, c) ==
    LET p(k) == <<em.data[1][k], em.data[2][k], em.data[3][k]>>
        e1 == DrawLine(image, p(1)[1], p(1)[2], p(1)[3], p(2)[1], p(2)[2], p(2)[3], c)
        e2 == DrawLine(e1, p(2)[1], p(2)[2], p(2)[3], p(3)[1], p(3)[2], p(3)[3], c)
    IN  DrawLine(e2, p(3)[1], p(3)[2], p(3)[3], p(1)[1], p(1)[2], p(1)[3], c)

OneTriangle(op) == op.op = "DrawPolygons" /\ op.args[1].cols = 3

\* C11: DrawPolygons on a triangle whose winding normal has a negative (or
\* zero) z-component changes no pixel and no depth entry; a triangle whose
\* normal has a strictly positive z-component has its three edges drawn.
C11_BackfaceCulled ==
    OneTriangle(last) =>
        /\ last.err = ""
        /\ NormalZ(last.args[1], 1) <= 0 => drawer.frame = pre.frame
        /\ NormalZ(last.args[1], 1) > 0 =>
               drawer.frame = EdgesDrawn(pre.frame, last.args[1], Red)

\* a back-facing triangle was culled right after the front-facing one was
\* drawn
C11_Witness ==
    /\ OneTriangle(last) /\ NormalZ(last.args[1], 1) < 0
    /\ OneTriangle(prev) /\ NormalZ(prev.args[1], 1) > 0
    /\ drawer.frame = pre.frame
    /\ drawer.frame # NewImage(CanvasH, CanvasW)

\* C12 as stated: after Fill every pixel has the fill colour and every depth
\* entry is minus infinity, so an in-canvas set issued right after Fill
\* shows, whatever was drawn before.
C12_FillResetsDepth ==
    /\ last.op = "Fill" =>
         \A x \in 0..(CanvasW - 1), y \in 0..(CanvasH - 1) :
             /\ drawer.frame.frame[y][x] = last.args[1]
             /\ drawer.frame.zBuffer[y][x] = NegInf
    /\ (IsSet(last) /\ prev.op = "Fill"
            /\ InsideCanvas(last.args[1], last.args[2])) =>
         ShowsAt(drawer.frame, last.args[1], last.args[2],
                 last.args[3], last.args[4])

\* the vary statement that was parsed last, and its frame range
IsVary(op) == op.op = "VARY"

VaryName(op) == op.args[1].name

VaryStart(op) == op.args[1].args[1]

VaryEnd(op) == op.args[1].args[2]

\* 0 <= startFrame <= endFrame < totalFrames
RangeOk(op, frames) ==
    /\ 0 <= VaryStart(op)
    /\ VaryStart(op) <= VaryEnd(op)
    /\ VaryEnd(op) < frames

\* the errors of a vary statement whose frames are out of range
InvalidFrameRange ==
    {"number of frames is not set", "invalid start frame", "invalid end frame"}

\* C13 as stated: a vary whose frames are out of range fails with the
\* InvalidFrameRange error and leaves the knob table as it was; a vary whose
\* frames are in range is accepted.
C13_VaryRangeChecked ==
    IsVary(last) =>
        IF RangeOk(last, pre.frames)
        THEN last.err = "" /\ ~last.panic /\ status = "parsing"
        ELSE /\ last.err \in InvalidFrameRange
             /\ status = "error"
             /\ parser.knobs = pre.knobs

\* frame f of a knob
KnobAt(p, name, f) == p.knobs[name][f + 1]

\* C14 as stated: after vary(k, 0, 4, 0, 10) with at least 6 frames the knob
\* reads 0, 2, 4, 6, 8, 10 on frames 0 to 5; after any vary the knob reads
\* startVal on startFrame and grows by delta from f to f + 1 for every f in
\* startFrame .. endFrame.
C14_KnobLinear ==
    (IsVary(last) /\ RangeOk(last, pre.frames)) =>
        LET st == last.args[1]
            delta == FDiv(st.args[4] - st.args[3],
                          Fx(VaryEnd(last) - VaryStart(last) + 1))
        IN  /\ VaryName(last) \in DOMAIN parser.knobs
            /\ KnobAt(parser, VaryName(last), VaryStart(last)) = st.args[3]
            /\ \A f \in VaryStart(last)..VaryEnd(last) :
                   f + 1 < parser.frames =>
                       KnobAt(parser, VaryName(last), f + 1) =
                           KnobAt(parser, VaryName(last), f) + delta
            /\ (st.args = <<0, 4, 0, Fx(10)>> /\ parser.frames >= 6) =>
                   [f \in 0..5 |-> KnobAt(parser, VaryName(last), f)] =
                       [f \in 0..5 |-> Fx(2 * f)]

\* the entries a vary statement may not touch are as they were: the frames
\* of its knob outside startFrame .. endFrame (zero in a knob that is new),
\* and every other knob
OutsideKept(before, after, op) ==
    /\ \A n \in DOMAIN before.knobs \ {VaryName(op)} :
           n \in DOMAIN after.knobs /\ after.knobs[n] = before.knobs[n]
    /\ VaryName(op) \in DOMAIN after.knobs =>
           \A f \in 0..(Len(after.knobs[VaryName(op)]) - 1) :
               (f < VaryStart(op) \/ f > VaryEnd(op)) =>
                   KnobAt(after, VaryName(op), f) =
                       IF VaryName(op) \in DOMAIN before.knobs
                       THEN KnobAt(before, VaryName(op), f)
                       ELSE 0

Disjoint(a, b) ==
    a.args[2] < b.args[1] \/ b.args[2] < a.args[1]

\* two statements parsed one after the other, the second only when the
\* first returned without error
parseTwo(p, a, b) ==
    LET r == parse(p, a)
    IN  IF r.err # "" \/ r.panic THEN r ELSE parse(r.p, b)

Accepted(r) == r.err = "" /\ ~r.panic

\* C15: a vary statement writes only the frames startFrame .. endFrame of
\* its own knob; two vary statements on one knob over disjoint ranges are
\* accepted in one order exactly when they are in the other, and then leave
\* the same knob table.
C15_VaryWritesOwnRange ==
    /\ IsVary(last) => OutsideKept(pre, parser, last)
    /\ status = "parsing" =>
         \A a \in VaryArgs, b \in VaryArgs :
             (a.name = b.name /\ Disjoint(a, b)) =>
                 LET ab == parseTwo(parser, a, b)
                     ba == parseTwo(parser, b, a)
                 IN  /\ Accepted(ab) <=> Accepted(ba)
                     /\ Accepted(ab) => ab.p.knobs = ba.p.knobs

\* two accepted vary statements wrote disjoint ranges of one knob, after a
\* third had written another knob
C15_Witness ==
    /\ IsVary(last) /\ IsVary(prev) /\ status = "parsing"
    /\ VaryName(last) = VaryName(prev)
    /\ Disjoint(last.args[1], prev.args[1])
    /\ KnobAt(parser, VaryName(last), VaryStart(prev)) # 0
    /\ KnobAt(parser, VaryName(last), VaryStart(last)) # 0
    /\ DOMAIN parser.knobs = {"j", "k"}

\* C16 as stated: once a script is accepted every knob has exactly one value
\* for each frame of the animation.
C16_KnobPerFrame ==
    status \in {"running", "done"} =>
        \A n \in DOMAIN parser.knobs : Len(parser.knobs[n]) = parser.frames

\* C18 as stated: an animated run that ends without error has saved frame f,
\* once, as <frames-dir>/<basename>-<f>.png with f padded with zeros to the
\* number of digits of the frame count.
C18_FrameFiles ==
    (status = "done" /\ parser.isAnimated) =>
        /\ Len(files) = parser.frames
        /\ \A f \in 0..(parser.frames - 1) :
               files[f + 1].path =
                   [dir      |-> FramesDirectory,
                    basename |-> parser.basename,
                    digits   |-> ZeroPad(Itoa(f), Len(Itoa(parser.frames)))]

\* C20 as stated: a frame whose commands were all replayed without error
\* has no move, scale or rotate that names a knob no vary (and no set)
\* defined.
C20_UndefinedKnob ==
    (last.op = "frame" /\ last.err = "" /\ ~last.panic) =>
        \A i \in 1..Len(parser.commands) :
            LET c == parser.commands[i]
            IN  (c.kind \in {"MOVE", "SCALE", "ROTATE"} /\ c.name # "") =>
                    \/ c.name \in DOMAIN parser.knobs
                    \/ \E j \in 1..(i - 1) :
                           /\ parser.commands[j].kind = "SET"
                           /\ parser.commands[j].name = c.name

\* C17 as stated: a frame saved by the loop of process and the frame of the
\* same index saved by a worker of the pool, whatever the order the workers
\* took and finished their jobs in, are the same pixel grid.
C17_SameFrames ==
    \A i \in 1..Len(files), f \in pool.files :
        files[i].path = f.path => files[i].image = f.image

\* the frames a worker took and is done with
Finished(worker) ==
    IF worker.state = "busy"
    THEN SubSeq(worker.taken, 1, Len(worker.taken) - 1)
    ELSE worker.taken

\* the pool saved the frame, once
SavedOnce(pl, frame) ==
    Cardinality({f \in pl.files :
                    f.path = FramePath(pl.p.formatString, frame)}) = 1

\* the error a worker reported for a frame
Failed(pl, w, frame) ==
    \E e \in 1..Len(pl.errs) :
        pl.errs[e].worker = w /\ pl.errs[e].err.frame = frame

InsideTriangle(em, x, y) ==
    LET px(k) == em.data[1][k]
        py(k) == em.data[2][k]
        Left(i, j) == (px(j) - px(i)) * (Fx(y) - py(i))
                          - (py(j) - py(i)) * (Fx(x) - px(i)) > 0
    IN  Left(1, 2) /\ Left(2, 3) /\ Left(3, 1)

\* the smallest depth of the three vertices
MinZ(em) ==
    CHOOSE z \in {em.data[3][k] : k \in 1..3} :
        \A k \in 1..3 : z <= em.data[3][k]

\* C21 as stated: after DrawPolygons on a visible triangle every in-canvas
\* pixel strictly inside the triangle has been written subject to the depth
\* test, so its stored depth is at least the depth of the triangle there.
C21_ScanlineFill ==
    (OneTriangle(last) /\ last.err = "" /\ NormalZ(last.args[1], 1) > 0) =>
        \A x \in 0..(CanvasW - 1), y \in 0..(CanvasH - 1) :
            InsideTriangle(last.args[1], x, y) =>
                drawer.frame.zBuffer[y][x] >= MinZ(last.args[1])

\* the geometry AddBox appends to an empty buffer for the arguments of a
\* Box command
BoxOf(v) == AddBox(NewMatrix(4, 0), v[1], v[2], v[3], v[4], v[5], v[6])

\* vertex k (0, 1, 2) of triangle t of em
Vertex(em, t, k) ==
    <<em.data[1][3 * t - 2 + k], em.data[2][3 * t - 2 + k],
      em.data[3][3 * t - 2 + k]>>

\* the winding normal of triangle t: (p1 - p0) x (p2 - p0)
FaceNormal(em, t) ==
    LET p0 == Vertex(em, t, 0)
        p1 == Vertex(em, t, 1)
        p2 == Vertex(em, t, 2)
    IN  CrossProduct(<<p1[1] - p0[1], p1[2] - p0[2], p1[3] - p0[3]>>,
                     <<p2[1] - p0[1], p2[2] - p0[2], p2[3] - p0[3]>>)

\* the normal of triangle t points away from the centre of the box: its dot
\* product with (centroid - centre), both taken six times, is positive
Outward(em, t, v) ==
    LET n == FaceNormal(em, t)
        sum(i) == Vertex(em, t, 0)[i] + Vertex(em, t, 1)[i] + Vertex(em, t, 2)[i]
        away == <<2 * sum(1) - (6 * v[1] + 3 * v[4]),
                  2 * sum(2) - (6 * v[2] - 3 * v[5]),
                  2 * sum(3) - (6 * v[3] - 3 * v[6])>>
    IN  n[1] * away[1] + n[2] * away[2] + n[3] * away[3] > 0

\* every vertex of triangle t has depth z
FaceAt(em, t, z) == \A k \in 0..2 : Vertex(em, t, k)[3] = z

\* C22 as stated: AddBox appends 36 points, twelve triangles; every normal
\* points away from the centre; the two triangles of the face of largest z
\* pass the visibility test and the two of the opposite face do not.
C22_BoxWoundOutward ==
    (last.op = "Box" /\ last.args[4] > 0 /\ last.args[5] > 0 /\ last.args[6] > 0) =>
        LET em == BoxOf(last.args)
        IN  /\ em.cols = 36
            /\ \A t \in 1..12 :
                   /\ Outward(em, t, last.args)
                   /\ FaceAt(em, t, last.args[3]) =>
                          isVisible(Vertex(em, t, 0), Vertex(em, t, 1),
                                    Vertex(em, t, 2))
                   /\ FaceAt(em, t, last.args[3] - last.args[6]) =>
                          ~isVisible(Vertex(em, t, 0), Vertex(em, t, 1),
                                     Vertex(em, t, 2))


\* C23: every channel of the colour returned by flat shading lies in
\* [0, 255]: a sum of the ambient, diffuse and specular terms above 255 is
\* returned as 255 and one below 0 as 0, each channel on its own.
C23_ShadeClamped ==
    shade.done => \A i \in 1..3 : shade.color[i] >= 0 /\ shade.color[i] <= Fx(255)


\* rows and cols of a Matrix describe its data
WellFormed(m) ==
    /\ Len(m.data) = m.rows
    /\ \A i \in 1..m.rows : Len(m.data[i]) = m.cols

\* C24: Multiply with lhs.cols # rhs.rows returns a DimensionMismatch error
\* and no product; with lhs.cols = rhs.rows it returns a matrix of lhs.rows
\* rows and rhs.cols columns, so a 4x4 transform times a geometry buffer of 4
\* rows is a buffer of 4 rows again; neither operand is modified.
C24_MultiplyDimensions ==
    /\ WellFormed(mult.m) /\ WellFormed(mult.m2)
    /\ mult.done =>
         IF mult.m.cols # mult.m2.rows
         THEN /\ mult.ret.err = "DimensionMismatch"
              /\ mult.ret.product = NewMatrix(0, 0)
         ELSE /\ mult.ret.err = ""
              /\ WellFormed(mult.ret.product)
              /\ mult.ret.product.rows = mult.m.rows
              /\ mult.ret.product.cols = mult.m2.cols
              /\ (mult.m.rows = 4 => mult.ret.product.rows = 4)

\* a 4x4 transform has been multiplied into a geometry buffer of two points
C24_Witness ==
    /\ mult.done
    /\ mult.m = MakeTranslation(Fx(1), Fx(2), 0)
    /\ mult.m2.rows = 4 /\ mult.m2.cols = 2
    /\ mult.ret.err = ""
    /\ mult.ret.product.cols = 2


\* the calls of set that DrawLine makes for the line of job, drawn from a to b
CallsAB ==
    DrawLine(Traced(NewImage(CanvasH, CanvasW)), job.a[1], job.a[2], job.a[3],
             job.b[1], job.b[2], job.b[3], White).calls

Whole(v) == v % Unit = 0

IntegerEndpoints == \A i \in 1..2 : Whole(job.a[i]) /\ Whole(job.b[i])

Max(a, b) == IF a >= b THEN a ELSE b

\* the number of steps along the driving axis, in pixels
Steps == Max(Abs(job.b[1] - job.a[1]), Abs(job.b[2] - job.a[2])) \div Unit

\* the depth given to set at pixel (x, y), if set was called there
DepthsAt(calls, x, y) ==
    {calls[k][3] : k \in {j \in 1..Len(calls) : calls[j][1] = x /\ calls[j][2] = y}}

\* equal up to the rounding of the slope, once per step
Near(u, v) == Abs(u - v) <= Steps

\* C25: depth is interpolated linearly along a line in every octant: the
\* depth given to set at the pixel of an endpoint is that endpoint's z, and
\* each step along the driving axis changes the depth by the same amount,
\* (z_end - z_start) / steps, also when y drives and decreases.
C25_DepthLinear ==
    (job.doneA /\ IntegerEndpoints /\ Steps > 0) =>
        LET calls == CallsAB
        IN  /\ \A z \in DepthsAt(calls, Trunc(job.a[1]), Trunc(job.a[2])) :
                  Near(z, job.a[3])
            /\ \A z \in DepthsAt(calls, Trunc(job.b[1]), Trunc(job.b[2])) :
                  Near(z, job.b[3])
            /\ \A k \in 1..(Len(calls) - 1) :
                  Near(Steps * Abs(calls[k + 1][3] - calls[k][3]),
                       Abs(job.b[3] - job.a[3]))


\* the rotation about axis by the angle degrees * pi / 180, laid out as
\* MakeRotX, MakeRotY and MakeRotZ lay their matrices out
TrueRotation(axis, degrees) ==
    LET theta == Angle(degrees.q, 0)
        c == Cos(theta)
        s == Sin(theta)
    IN  CASE axis = "x" -> NewMatrixFromData(<< <<Unit, 0, 0, 0>>, <<0, c, s, 0>>,
                                                <<0, -s, c, 0>>, <<0, 0, 0, Unit>> >>)
          [] axis = "y" -> NewMatrixFromData(<< <<c, 0, -s, 0>>, <<0, Unit, 0, 0>>,
                                                <<s, 0, c, 0>>, <<0, 0, 0, Unit>> >>)
          [] axis = "z" -> NewMatrixFromData(<< <<c, s, 0, 0>>, <<-s, c, 0, 0>>,
                                                <<0, 0, Unit, 0>>, <<0, 0, 0, Unit>> >>)

\* C26: Rotate(axis, degrees) composes the rotation by degrees * pi / 180 on
\* the top of the stack: the angle is converted from degrees to radians
\* exactly once, so Rotate(axis, 90) is a quarter turn.
C26_RotateConvertsOnce ==
    (last.op = "Rotate" /\ Composed(last) /\ last.args[2].e = 1) =>
        Top(View(drawer).cs) =
            Multiply(Top(pre.cs), TrueRotation(last.args[1], last.args[2])).product


\* the Parser as parse left it, before process rendered any frame
AsParsed ==
    CHOOSE p \in {parseScript(NewParser, script, 1).p : script \in Scripts} :
        p.commands = parser.commands

\* frame rendered by the body of the loop of process with nothing rendered
\* before it: the Parser as parsed and a Drawer as Reset leaves it
FrameAlone(frame) ==
    processFrame(AsParsed, NewDrawer(CanvasH, CanvasW), <<>>, frame, "")

\* C27: the image process saves for frame f is the image that replaying the
\* command list for frame f alone gives: nothing of the frames rendered
\* before it is carried over, neither by the stack, the geometry buffer or
\* the frame buffer, nor by symbol values written by set or setall.
C27_FrameIsolated ==
    \A i \in 1..Len(files) :
        \E alone \in {FrameAlone(i - 1)} :
            /\ alone.err = "" /\ ~alone.panic
            /\ Len(alone.files) = 1
            /\ alone.files[1].path = files[i].path
            /\ alone.files[1].image = files[i].image


\* C28: a script that is treated as animated has a frame count of at least 1
\* when rendering starts, so process has rendered and saved at least one
\* frame when it reaches the step that assembles the animation.
C28_AnimatedHasFrames ==
    (status = "done" /\ parser.isAnimated) =>
        /\ parser.frames >= 1
        /\ Len(files) >= 1


Succeeded(op) == op.err = "" /\ ~op.panic

PixelOf(p) == <<Trunc(p[1]), Trunc(p[2])>>

\* the index of the driving coordinate: x unless the line is steeper than 1
Driving == IF Abs(job.b[2] - job.a[2]) > Abs(job.b[1] - job.a[1]) THEN 2 ELSE 1

\* C30: for integer endpoints DrawLine calls set max(|x2 - x1|, |y2 - y1|) + 1
\* times, first at one endpoint and last at the other; from one call to the
\* next the driving coordinate moves by exactly 1 and the other coordinate by
\* at most 1.
C30_LineCalls ==
    (job.doneA /\ IntegerEndpoints) =>
        LET calls == CallsAB
            n == Len(calls)
        IN  /\ n = Steps + 1
            /\ {<<calls[1][1], calls[1][2]>>, <<calls[n][1], calls[n][2]>>} =
                   {PixelOf(job.a), PixelOf(job.b)}
            /\ \A k \in 1..(n - 1) :
                   /\ Abs(calls[k + 1][Driving] - calls[k][Driving]) = 1
                   /\ Abs(calls[k + 1][3 - Driving] - calls[k][3 - Driving]) <= 1

====
